---------------------------- MODULE Spec2Model ----------------------------
(***************************************************************************)
(* Readout and buffer drivers of qick_lib/qick/drivers/readout.py.         *)
(*                                                                         *)
(* Every driver call is one action.  The call that ran last, its           *)
(* arguments and the way it ended (returned, or the error it raised) are   *)
(* kept in the variable last, so that the outcome of a call is part of the *)
(* state.  Frequencies are exact integers in MHz; the floating point       *)
(* arithmetic of the source is modelled by exact rational arithmetic.      *)
(***************************************************************************)
EXTENDS Integers, Sequences, FiniteSets, TLC

VARIABLES
    block,          \* the class of the readout block: "V2", "V3" or "V4"
    ncalls,         \* number of driver calls made so far
    locals,         \* the local variables of the last set_freq call
    \* AxisPFBReadoutV2
    ch_freqs,       \* self.ch_freqs : dict, PFB channel -> committed word
    out_chs,        \* self.out_chs  : dict, PFB channel -> output that set it
    sel,            \* self.sel
    ch_sel_reg,     \* ch0sel_reg .. ch3sel_reg, indexed by output
    pfb_freq_reg,   \* freq0_reg .. freq7_reg, indexed by PFB channel
    \* AxisPFBReadoutV3 / AxisPFBReadoutV4
    id_reg,         \* id0_reg ..,    indexed by output
    freq_reg,       \* freq0_reg ..,  indexed by output
    phase_reg,      \* phase0_reg .., indexed by output
    \* AxisAvgBuffer: the registers, by their names in REGISTERS
    avg_start_reg, avg_addr_reg, avg_len_reg,
    avg_dr_start_reg, avg_dr_addr_reg, avg_dr_len_reg,
    buf_start_reg, buf_addr_reg, buf_len_reg,
    buf_dr_start_reg, buf_dr_addr_reg, buf_dr_len_reg,
    switch_avg,     \* self.switch_avg: the port the switch of the avg path selects
    switch_buf,     \* self.switch_buf: the port the switch of the buf path selects
    dma_avg,        \* self.dma_avg.recvchannel: bytes asked for, bytes transferred
    dma_buf,        \* self.dma_buf.recvchannel
    \* two threads inside AxisPFBReadoutV2.set_freq_int of one block
    th_pc,          \* thread -> the statement it is at, or how its call ended
    th_args,        \* thread -> the arguments of its call
    \* two AxisAvgBuffer blocks on one switch and one DMA per path ("avg", "buf")
    sh_pc,          \* block -> the statement of transfer_avg/transfer_buf it is at
    sh_call,        \* block -> the transfer call it is in, and its locals
    sh_ret,         \* block -> how its last transfer call ended
    sh_dr,          \* block -> path -> the dr_start, dr_addr, dr_len registers
    sh_switch,      \* path -> the port the switch selects
    sh_dma,         \* path -> recvchannel: bytes asked for, transferred, waiters
    \* AxisPFBReadoutV2: the output selection register
    outsel_reg,
    \* AxisReadoutV2: the registers, by their names in REGISTERS (freq_reg,
    \* phase_reg, nsamp_reg, outsel_reg, mode_reg, we_reg)
    ro_freq_reg, ro_phase_reg, ro_nsamp_reg, ro_outsel_reg, ro_mode_reg, we_reg,
    \* AxisBufferDdrV1: the registers, by their names in REGISTERS
    rstart_reg, raddr_reg, rlength_reg, wstart_reg, waddr_reg, wnburst_reg,
    burst_len,      \* self.cfg['burst_len']
    \* MrBufferEt: the registers
    dw_capture_reg, dr_start_reg,
    \* AxisBufferDdrV1 and MrBufferEt: the input switch
    has_switch,     \* self.switch is not None
    ring_switch,    \* the port self.switch selects
    \* the call that ran last
    last

pfbVars == <<ch_freqs, out_chs, sel, ch_sel_reg, pfb_freq_reg>>
wideVars == <<id_reg, freq_reg, phase_reg>>
avgRegs == <<avg_start_reg, avg_addr_reg, avg_len_reg,
             avg_dr_start_reg, avg_dr_addr_reg, avg_dr_len_reg>>
bufRegs == <<buf_start_reg, buf_addr_reg, buf_len_reg,
             buf_dr_start_reg, buf_dr_addr_reg, buf_dr_len_reg>>
avgVars == <<avgRegs, bufRegs, switch_avg, switch_buf, dma_avg, dma_buf>>
thVars == <<th_pc, th_args>>
shVars == <<sh_pc, sh_call, sh_ret, sh_dr, sh_switch, sh_dma>>
roVars == <<ro_freq_reg, ro_phase_reg, ro_nsamp_reg, ro_outsel_reg, ro_mode_reg,
            we_reg>>
ddrRegs == <<rstart_reg, raddr_reg, rlength_reg, wstart_reg, waddr_reg, wnburst_reg>>
ringVars == <<ddrRegs, burst_len, dw_capture_reg, dr_start_reg, has_switch,
              ring_switch>>
vars == <<block, ncalls, locals, pfbVars, wideVars, avgVars, thVars, shVars,
          outsel_reg, roVars, ringVars, last>>

---------------------------------------------------------------------------
(* Bounds of the model. *)

\* tuning words handed to set_freq_int directly: 1..MaxWord
MaxWord == 2
\* PFB channels handed to set_freq_int directly: CH_OFFSET .. CH_OFFSET+MaxCh-1
MaxCh == 2
\* in-range outputs handed to the filter-bank calls: 0..MaxOut-1
MaxOut == 2
\* PFB channels handed to the wide set_freq_int: those around the first lane
\* boundary, L_PFB-1 .. L_PFB+MaxPfbCh, and 0, N-1, N, -1
MaxPfbCh == 1
\* frequencies handed to set_freq: -MaxK*FreqStep .. MaxK*FreqStep in steps of
\* FreqStep MHz
MaxK == 22
\* calls made in one run of the set_freq and of the buffer specification
MaxCalls == 2
\* calls made in one run of the specifications of the 8-channel bank driven
\* through set_freq_int and set_out, and of the single-channel readout
MaxCallsPFB == 3
\* addresses handed to the buffer calls: 0..MaxAddr
MaxAddr == 1
\* width of the tuning word in the model, in bits; cfg['b_dds'] is 32 in the
\* source, the model keeps the words narrow so that 2^b_dds stays an integer of
\* the model checker
WordBits == 8

---------------------------------------------------------------------------
(* Python helpers. *)

\* the empty dict {}
EmptyDict == [k \in {} |-> 0]

\* d[k] = v
DictSet(d, k, v) == [x \in (DOMAIN d) \cup {k} |-> IF x = k THEN v ELSE d[x]]

---------------------------------------------------------------------------
(* AxisPFBReadoutV2 *)

\* number of PFB channels: freq0_reg .. freq7_reg, and the "% 8" of set_freq
N_V2 == 8
\* number of outputs: ch0sel_reg .. ch3sel_reg
NOUT_V2 == 4
\* index of the PFB channel that is centered around DC
CH_OFFSET == 4

V2Channels == 0 .. (N_V2 - 1)
V2Outputs == 0 .. (NOUT_V2 - 1)

Words == 1 .. MaxWord
ChInputs == CH_OFFSET .. (CH_OFFSET + MaxCh - 1)
\* outputs handed to the calls: some that exist, and the first one that does not
OutInputs == (0 .. (MaxOut - 1)) \cup {NOUT_V2}

\* what ch_freqs and out_chs held for a channel before a call: <<>> when the
\* channel was not in ch_freqs, else <<word, output>>
Prior(in_ch) ==
    IF in_ch \in DOMAIN ch_freqs THEN <<ch_freqs[in_ch], out_chs[in_ch]>> ELSE <<>>

\* setattr(self, "ch%dsel_reg"%(out_ch), in_ch): a name that is in REGISTERS is
\* written to the register; any other name becomes an ordinary attribute of the
\* driver object, which no register and no code reads.
SetChSel(out_ch, in_ch) ==
    IF out_ch \in V2Outputs
    THEN ch_sel_reg' = [ch_sel_reg EXCEPT ![out_ch] = in_ch]
    ELSE UNCHANGED ch_sel_reg

\* AxisPFBReadoutV2.initialize
Initialize ==
    /\ ch_freqs' = EmptyDict
    /\ sel' = "None"
    /\ out_chs' = EmptyDict
    /\ last' = [op |-> "initialize", status |-> "ok"]
    /\ UNCHANGED <<ch_sel_reg, pfb_freq_reg>>

\* AxisPFBReadoutV2.set_freq_int with the collision check after the bookkeeping
SetFreqInt_CheckLate(f_int, in_ch, out_ch) ==
    /\ out_chs' = DictSet(out_chs, in_ch, out_ch)
    /\ IF in_ch \in DOMAIN ch_freqs /\ f_int # ch_freqs[in_ch]
       THEN /\ last' = [op |-> "set_freq_int", f_int |-> f_int, in_ch |-> in_ch,
                        out_ch |-> out_ch, prior |-> Prior(in_ch),
                        status |-> "collision",
                        conflict |-> <<out_ch, out_chs[in_ch]>>]
            /\ UNCHANGED <<ch_freqs, sel, ch_sel_reg, pfb_freq_reg>>
       ELSE /\ ch_freqs' = DictSet(ch_freqs, in_ch, f_int)
            /\ SetChSel(out_ch, in_ch)
            /\ pfb_freq_reg' = [pfb_freq_reg EXCEPT ![in_ch] = f_int]
            /\ last' = [op |-> "set_freq_int", f_int |-> f_int, in_ch |-> in_ch,
                        out_ch |-> out_ch, prior |-> Prior(in_ch),
                        status |-> "ok"]
            /\ UNCHANGED sel

\* AxisPFBReadoutV2.set_freq_int without the collision check
SetFreqInt_NoCheck(f_int, in_ch, out_ch) ==
    /\ ch_freqs' = DictSet(ch_freqs, in_ch, f_int)
    /\ out_chs' = DictSet(out_chs, in_ch, out_ch)
    /\ SetChSel(out_ch, in_ch)
    /\ pfb_freq_reg' = [pfb_freq_reg EXCEPT ![in_ch] = f_int]
    /\ last' = [op |-> "set_freq_int", f_int |-> f_int, in_ch |-> in_ch,
                out_ch |-> out_ch, prior |-> Prior(in_ch), status |-> "ok"]
    /\ UNCHANGED sel

\* AxisPFBReadoutV2.set_freq_int refusing every channel that is already in use
SetFreqInt_NoFanOut(f_int, in_ch, out_ch) ==
    IF in_ch \in DOMAIN ch_freqs
    THEN /\ last' = [op |-> "set_freq_int", f_int |-> f_int, in_ch |-> in_ch,
                     out_ch |-> out_ch, prior |-> Prior(in_ch),
                     status |-> "collision",
                     conflict |-> <<out_ch, out_chs[in_ch]>>]
         /\ UNCHANGED <<ch_freqs, out_chs, sel, ch_sel_reg, pfb_freq_reg>>
    ELSE SetFreqInt_NoCheck(f_int, in_ch, out_ch)

\* AxisPFBReadoutV2.set_freq_int
SetFreqInt(f_int, in_ch, out_ch) ==
    IF in_ch \in DOMAIN ch_freqs /\ f_int # ch_freqs[in_ch]
    THEN \* raise RuntimeError("frequency collision: ...")
         /\ last' = [op |-> "set_freq_int", f_int |-> f_int, in_ch |-> in_ch,
                     out_ch |-> out_ch, prior |-> Prior(in_ch),
                     status |-> "collision",
                     conflict |-> <<out_ch, out_chs[in_ch]>>]
         /\ UNCHANGED <<ch_freqs, out_chs, sel, ch_sel_reg, pfb_freq_reg>>
    ELSE /\ ch_freqs' = DictSet(ch_freqs, in_ch, f_int)
         /\ out_chs' = DictSet(out_chs, in_ch, out_ch)
         /\ SetChSel(out_ch, in_ch)
         /\ pfb_freq_reg' = [pfb_freq_reg EXCEPT ![in_ch] = f_int]
         /\ last' = [op |-> "set_freq_int", f_int |-> f_int, in_ch |-> in_ch,
                     out_ch |-> out_ch, prior |-> Prior(in_ch),
                     status |-> "ok"]
         /\ UNCHANGED sel

\* AxisPFBReadoutV2.__init__ : initialize(); the registers hold their reset value
InitPFB ==
    /\ ch_freqs = EmptyDict
    /\ out_chs = EmptyDict
    /\ sel = "None"
    /\ ch_sel_reg = [o \in V2Outputs |-> 0]
    /\ pfb_freq_reg = [c \in V2Channels |-> 0]

---------------------------------------------------------------------------
(* AxisPFBReadoutV2.set_freq_int, statement by statement, called from two      *)
(* threads on the same block.  A thread is "idle" before its first call, at   *)
(* one of the statements of set_freq_int while it is in a call, and at "ok",  *)
(* "collision" or "key_error" when its call has ended.                        *)

Threads == {1, 2}
ThInCall == {"check", "ch_freqs", "out_chs", "ch_sel", "freq_reg"}
NoArgs == [f_int |-> 0, in_ch |-> 0, out_ch |-> 0]

\* a thread enters set_freq_int(f_int, in_ch, out_ch)
ThCall(t, f_int, in_ch, out_ch) ==
    /\ th_pc[t] \notin ThInCall
    /\ th_pc' = [th_pc EXCEPT ![t] = "check"]
    /\ th_args' = [th_args EXCEPT ![t] =
                       [f_int |-> f_int, in_ch |-> in_ch, out_ch |-> out_ch]]
    /\ UNCHANGED pfbVars

\* the first statement without the collision check
ThCheck_NoCheck(t) ==
    /\ th_pc[t] = "check"
    /\ th_pc' = [th_pc EXCEPT ![t] = "ch_freqs"]
    /\ UNCHANGED <<th_args, pfbVars>>

\* if in_ch in self.ch_freqs and f_int != self.ch_freqs[in_ch]: raise
\* RuntimeError("frequency collision ..." % (..., self.out_chs[in_ch], ...));
\* the message reads out_chs[in_ch], a KeyError when the channel is not in it
ThCheck(t) ==
    /\ th_pc[t] = "check"
    /\ LET a == th_args[t]
       IN  th_pc' = [th_pc EXCEPT ![t] =
                       IF a.in_ch \in DOMAIN ch_freqs /\ a.f_int # ch_freqs[a.in_ch]
                       THEN IF a.in_ch \in DOMAIN out_chs
                            THEN "collision" ELSE "key_error"
                       ELSE "ch_freqs"]
    /\ UNCHANGED <<th_args, pfbVars>>

\* self.ch_freqs[in_ch] = f_int
ThSetChFreqs(t) ==
    /\ th_pc[t] = "ch_freqs"
    /\ ch_freqs' = DictSet(ch_freqs, th_args[t].in_ch, th_args[t].f_int)
    /\ th_pc' = [th_pc EXCEPT ![t] = "out_chs"]
    /\ UNCHANGED <<th_args, out_chs, sel, ch_sel_reg, pfb_freq_reg>>

\* self.out_chs[in_ch] = out_ch
ThSetOutChs(t) ==
    /\ th_pc[t] = "out_chs"
    /\ out_chs' = DictSet(out_chs, th_args[t].in_ch, th_args[t].out_ch)
    /\ th_pc' = [th_pc EXCEPT ![t] = "ch_sel"]
    /\ UNCHANGED <<th_args, ch_freqs, sel, ch_sel_reg, pfb_freq_reg>>

\* setattr(self, "ch%dsel_reg"%(out_ch), in_ch)
ThSetChSel(t) ==
    /\ th_pc[t] = "ch_sel"
    /\ SetChSel(th_args[t].out_ch, th_args[t].in_ch)
    /\ th_pc' = [th_pc EXCEPT ![t] = "freq_reg"]
    /\ UNCHANGED <<th_args, ch_freqs, out_chs, sel, pfb_freq_reg>>

\* setattr(self, "freq%d_reg"%(in_ch), f_int), and the call returns
ThSetFreqReg(t) ==
    /\ th_pc[t] = "freq_reg"
    /\ pfb_freq_reg' = [pfb_freq_reg EXCEPT ![th_args[t].in_ch] = th_args[t].f_int]
    /\ th_pc' = [th_pc EXCEPT ![t] = "ok"]
    /\ UNCHANGED <<th_args, ch_freqs, out_chs, sel, ch_sel_reg>>

InitThreads ==
    /\ th_pc = [t \in Threads |-> "idle"]
    /\ th_args = [t \in Threads |-> NoArgs]

---------------------------------------------------------------------------
(* AxisPFBReadoutV3 and AxisPFBReadoutV4 *)

\* self.N = int(description['parameters']['N']): "a polyphase filter bank with
\* 64 channels"
N_PFB == 64
\* Number of lanes of PFB output
L_PFB == 8
\* Number of outputs
NOUT_V3 == 4
NOUT_V4 == 8

\* NOUT of the class of the block
NOUT == IF block = "V4" THEN NOUT_V4 ELSE NOUT_V3

WideOutputs == 0 .. (NOUT - 1)
PfbChInputs == ((L_PFB - 1) .. (L_PFB + MaxPfbCh)) \cup {0, N_PFB - 1, N_PFB, -1}
WideOutInputs == {0, NOUT - 1, NOUT}

\* packet = int(pfb_ch/self.L_PFB), for 0 <= pfb_ch
Packet(pfb_ch) == pfb_ch \div L_PFB
\* a lane field that is not reduced modulo L_PFB
Index_NoMod(pfb_ch) == pfb_ch
\* index = int(pfb_ch % self.L_PFB)
Index(pfb_ch) == pfb_ch % L_PFB
\* x << 8
Shl8(x) == x * 256
\* id_val = (index << 8) + packet
IdVal(pfb_ch) == Shl8(Index(pfb_ch)) + Packet(pfb_ch)

WideCall(f_int, pfb_ch, out_ch, status) ==
    [op |-> "set_freq_int_wide", f_int |-> f_int, pfb_ch |-> pfb_ch,
     out_ch |-> out_ch, status |-> status]

\* a wide set_freq_int that refuses a PFB channel another output has bound with a
\* different word
V3_SetFreqInt_Exclusive(f_int, pfb_ch, out_ch) ==
    IF 0 <= pfb_ch /\ pfb_ch < N_PFB
    THEN IF 0 <= out_ch /\ out_ch < NOUT_V3
         THEN IF \E o \in WideOutputs \ {out_ch} :
                     /\ id_reg[o] = IdVal(pfb_ch)
                     /\ freq_reg[o] # 0
                     /\ freq_reg[o] # f_int
              THEN /\ last' = WideCall(f_int, pfb_ch, out_ch, "collision")
                   /\ UNCHANGED wideVars
              ELSE /\ id_reg' = [id_reg EXCEPT ![out_ch] = IdVal(pfb_ch)]
                   /\ freq_reg' = [freq_reg EXCEPT ![out_ch] = f_int]
                   /\ phase_reg' = [phase_reg EXCEPT ![out_ch] = 0]
                   /\ last' = WideCall(f_int, pfb_ch, out_ch, "ok")
         ELSE /\ last' = WideCall(f_int, pfb_ch, out_ch, "invalid_out")
              /\ UNCHANGED wideVars
    ELSE /\ last' = WideCall(f_int, pfb_ch, out_ch, "invalid_pfb_ch")
         /\ UNCHANGED wideVars

\* AxisPFBReadoutV3.set_freq_int
V3_SetFreqInt(f_int, pfb_ch, out_ch) ==
    IF 0 <= pfb_ch /\ pfb_ch < N_PFB
    THEN IF 0 <= out_ch /\ out_ch < NOUT_V3
         THEN /\ id_reg' = [id_reg EXCEPT ![out_ch] = IdVal(pfb_ch)]
              /\ freq_reg' = [freq_reg EXCEPT ![out_ch] = f_int]
              /\ phase_reg' = [phase_reg EXCEPT ![out_ch] = 0]
              /\ last' = WideCall(f_int, pfb_ch, out_ch, "ok")
         ELSE \* raise RuntimeError("Invalid %d output channel. ...")
              /\ last' = WideCall(f_int, pfb_ch, out_ch, "invalid_out")
              /\ UNCHANGED wideVars
    ELSE \* raise RuntimeError("Invalid PFB channel: ..."%(self.pfb_ch, ...)):
         \* evaluating the message fails first, on self.pfb_ch; an error either way
         /\ last' = WideCall(f_int, pfb_ch, out_ch, "invalid_pfb_ch")
         /\ UNCHANGED wideVars

\* AxisPFBReadoutV4.set_freq_int
V4_SetFreqInt(f_int, pfb_ch, out_ch) ==
    IF 0 <= pfb_ch /\ pfb_ch < N_PFB
    THEN IF 0 <= out_ch /\ out_ch < NOUT_V4
         THEN /\ id_reg' = [id_reg EXCEPT ![out_ch] = IdVal(pfb_ch)]
              /\ freq_reg' = [freq_reg EXCEPT ![out_ch] = f_int]
              /\ phase_reg' = [phase_reg EXCEPT ![out_ch] = 0]
              /\ last' = WideCall(f_int, pfb_ch, out_ch, "ok")
         ELSE /\ last' = WideCall(f_int, pfb_ch, out_ch, "invalid_out")
              /\ UNCHANGED wideVars
    ELSE /\ last' = WideCall(f_int, pfb_ch, out_ch, "invalid_pfb_ch")
         /\ UNCHANGED wideVars

\* AxisPFBReadoutV3.__init__ / AxisPFBReadoutV4.__init__ : the registers hold
\* their reset value
InitWide ==
    /\ id_reg = [o \in WideOutputs |-> 0]
    /\ freq_reg = [o \in WideOutputs |-> 0]
    /\ phase_reg = [o \in WideOutputs |-> 0]

---------------------------------------------------------------------------
(* set_freq of the filter banks *)

\* cfg['fs']: the sampling frequency of the ADC that drives the readout, MHz
fs == 100
\* cfg['decimation']
decimation == 1

\* cfg['f_dds'], an exact fraction: AbsReadout.configure sets fs/decimation,
\* AxisPFBReadoutV2.configure divides it by 4
V2_f_dds == [num |-> fs, den |-> decimation * 4]
\* AxisPFBReadoutV3.configure, AxisPFBReadoutV4.configure divide it by N/2
Wide_f_dds == [num |-> fs, den |-> decimation * (N_PFB \div 2)]

FreqStep == fs \div 10
FreqInputs == {k * FreqStep : k \in (-MaxK) .. MaxK}

\* np.round(n/d), d > 0: to the nearest integer, halves to the even one
RoundHalfEven(n, d) ==
    LET q == n \div d
        r == n % d
    IN  IF 2 * r < d THEN q
        ELSE IF 2 * r > d THEN q + 1
        ELSE IF q % 2 = 0 THEN q ELSE q + 1

\* a zone index counted in steps of fs instead of fs/2
Nqz_FullRate(ro_freq) == (ro_freq \div fs) + 1
\* a zone index that starts at 0
Nqz_ZeroBased(ro_freq) == (2 * ro_freq) \div fs
\* nqz = int(ro_freq // (self['fs']/2)) + 1
Nqz(ro_freq) == ((2 * ro_freq) \div fs) + 1

\* if nqz % 2 == 0: ro_freq *= -1
Fold(ro_freq, nqz) == IF nqz % 2 = 0 THEN ro_freq * (-1) ELSE ro_freq

\* the channel step taken with floor() instead of round()
FSteps_Floor(ro_freq, f_dds) == (ro_freq * 2 * f_dds.den) \div f_dds.num

\* f_steps = int(np.round(ro_freq/(self['f_dds']/2)))
FSteps(ro_freq, f_dds) == RoundHalfEven(ro_freq * 2 * f_dds.den, f_dds.num)

\* f_dds = ro_freq - f_steps*(self['f_dds']/2), an exact fraction
Residual(ro_freq, f_steps, f_dds) ==
    [num |-> ro_freq * 2 * f_dds.den - f_steps * f_dds.num, den |-> 2 * f_dds.den]

\* a channel index taken with a remainder that keeps the sign of the dividend
V2_InCh_Rem(f_steps) ==
    LET x == CH_OFFSET + f_steps
    IN  IF x >= 0 THEN x % N_V2 ELSE 0 - ((0 - x) % N_V2)
\* in_ch = (self.CH_OFFSET + f_steps) % 8
V2_InCh(f_steps) == (CH_OFFSET + f_steps) % N_V2

\* self.CH_OFFSET = self.N//2 ; pfb_ch = (self.CH_OFFSET + f_steps) % self.N
Wide_PfbCh(f_steps) == ((N_PFB \div 2) + f_steps) % N_PFB

\* the frequency codec without the wrap-around modulo 2^b_dds
Freq2Int_NoWrap(f, f_dds) ==
    RoundHalfEven(f.num * f_dds.den * (2 ^ WordBits), f.den * f_dds.num)

\* self.soc.freq2int(f, cfg), the frequency codec:
\* round(f / f_dds * 2^b_dds) modulo 2^b_dds
Freq2Int(f, f_dds) ==
    RoundHalfEven(f.num * f_dds.den * (2 ^ WordBits), f.den * f_dds.num)
        % (2 ^ WordBits)

\* self.soc.int2freq(word, cfg), the frequency codec: word * f_dds / 2^b_dds
Int2Freq(word, f_dds) ==
    [num |-> word * f_dds.num, den |-> f_dds.den * (2 ^ WordBits)]

\* the locals of set_freq; f is the frequency after any rounding to the
\* generator's frequency step and after the generator's mixer frequency is added
SetFreqLocals(f, out_ch, f_dds, nqz, ro_freq, f_steps, ch) ==
    [op |-> "set_freq", f |-> f, out_ch |-> out_ch, nqz |-> nqz,
     ro_freq |-> ro_freq, f_steps |-> f_steps,
     f_dds |-> Residual(ro_freq, f_steps, f_dds), ch |-> ch,
     freq_int |-> Freq2Int(Residual(ro_freq, f_steps, f_dds), f_dds)]

\* AxisPFBReadoutV2.set_freq
V2_SetFreq(f, out_ch) ==
    LET nqz == Nqz(f)
        ro_freq == Fold(f, nqz)
        f_steps == FSteps(ro_freq, V2_f_dds)
        in_ch == V2_InCh(f_steps)
        loc == SetFreqLocals(f, out_ch, V2_f_dds, nqz, ro_freq, f_steps, in_ch)
    IN  /\ locals' = loc
        /\ SetFreqInt(loc.freq_int, in_ch, out_ch)

\* AxisPFBReadoutV3.set_freq
V3_SetFreq(f, out_ch) ==
    LET nqz == Nqz(f)
        ro_freq == Fold(f, nqz)
        f_steps == FSteps(ro_freq, Wide_f_dds)
        pfb_ch == Wide_PfbCh(f_steps)
        loc == SetFreqLocals(f, out_ch, Wide_f_dds, nqz, ro_freq, f_steps, pfb_ch)
    IN  /\ locals' = loc
        /\ V3_SetFreqInt(loc.freq_int, pfb_ch, out_ch)

\* AxisPFBReadoutV4.set_freq
V4_SetFreq(f, out_ch) ==
    LET nqz == Nqz(f)
        ro_freq == Fold(f, nqz)
        f_steps == FSteps(ro_freq, Wide_f_dds)
        pfb_ch == Wide_PfbCh(f_steps)
        loc == SetFreqLocals(f, out_ch, Wide_f_dds, nqz, ro_freq, f_steps, pfb_ch)
    IN  /\ locals' = loc
        /\ V4_SetFreqInt(loc.freq_int, pfb_ch, out_ch)

---------------------------------------------------------------------------
(* AxisAvgBuffer *)

\* self.N_AVG = int(description['parameters']['N_AVG'])
N_AVG == 10
\* self.N_BUF = int(description['parameters']['N_BUF'])
N_BUF == 10
\* self.cfg['avg_maxlen'] = 2**self.N_AVG
avg_maxlen == 2 ^ N_AVG
\* self.cfg['buf_maxlen'] = 2**self.N_BUF
buf_maxlen == 2 ^ N_BUF
\* self.switch_ch: the switch port this buffer drives
switch_ch == 1

\* the bytes of an element of avg_buff (np.int64), of buf_buff (np.int32), and of
\* the types the returned data is viewed as (np.int32, np.int16)
AvgItemSize == 8
AvgViewSize == 4
BufItemSize == 4
BufViewSize == 2

AddrInputs == 0 .. MaxAddr
\* lengths handed to the calls: the default window and the next odd length, and
\* the lengths around the capacity
LenInputs == {100, 101, avg_maxlen - 1, avg_maxlen, buf_maxlen - 1, buf_maxlen}

\* a transfer length that is not padded
PadEven_None(length) == length
\* a transfer length padded by two samples when it is odd
PadEven_Two(length) == length + 2 * (length % 2)
\* transferlen = length + (length % 2)
PadEven(length) == length + (length % 2)

\* what recvchannel.transferred may read after transfer(buff, nbytes) and wait():
\* all the bytes, or one element less
DmaTransferred(nbytes, itemsize) ==
    {nbytes} \cup (IF nbytes >= itemsize THEN {nbytes - itemsize} ELSE {})

\* len(buff[:length]) for a buffer of n elements and 0 <= length
SliceLen(n, length) == IF length < n THEN length ELSE n

\* rows of np.frombuffer(buff[:length], dtype=view).reshape((-1,2))
Rows(n, length, itemsize, viewsize) ==
    (SliceLen(n, length) * (itemsize \div viewsize)) \div 2

\* the record of a call: its arguments, how it ended, and whether the averaging
\* and the raw buffer were armed (avg_start_reg, buf_start_reg) when it began
AvgCall(op, address, length, status) ==
    [op |-> op, address |-> address, length |-> length, status |-> status,
     armed |-> <<avg_start_reg, buf_start_reg>>]

\* enable_avg arming the raw buffer as well
EnableAvg_Both ==
    /\ avg_start_reg' = 1
    /\ buf_start_reg' = 1
    /\ last' = [op |-> "enable_avg", status |-> "ok"]
    /\ UNCHANGED <<avg_addr_reg, avg_len_reg, avg_dr_start_reg, avg_dr_addr_reg,
                   avg_dr_len_reg, buf_addr_reg, buf_len_reg, buf_dr_start_reg,
                   buf_dr_addr_reg, buf_dr_len_reg,
                   switch_avg, switch_buf, dma_avg, dma_buf>>

\* AxisAvgBuffer.enable_avg
EnableAvg ==
    /\ avg_start_reg' = 1
    /\ last' = [op |-> "enable_avg", status |-> "ok"]
    /\ UNCHANGED <<avg_addr_reg, avg_len_reg, avg_dr_start_reg, avg_dr_addr_reg,
                   avg_dr_len_reg, bufRegs, switch_avg, switch_buf, dma_avg, dma_buf>>

\* AxisAvgBuffer.disable_avg
DisableAvg ==
    /\ avg_start_reg' = 0
    /\ last' = [op |-> "disable_avg", status |-> "ok"]
    /\ UNCHANGED <<avg_addr_reg, avg_len_reg, avg_dr_start_reg, avg_dr_addr_reg,
                   avg_dr_len_reg, bufRegs, switch_avg, switch_buf, dma_avg, dma_buf>>

\* AxisAvgBuffer.enable_buf
EnableBuf ==
    /\ buf_start_reg' = 1
    /\ last' = [op |-> "enable_buf", status |-> "ok"]
    /\ UNCHANGED <<buf_addr_reg, buf_len_reg, buf_dr_start_reg, buf_dr_addr_reg,
                   buf_dr_len_reg, avgRegs, switch_avg, switch_buf, dma_avg, dma_buf>>

\* AxisAvgBuffer.disable_buf
DisableBuf ==
    /\ buf_start_reg' = 0
    /\ last' = [op |-> "disable_buf", status |-> "ok"]
    /\ UNCHANGED <<buf_addr_reg, buf_len_reg, buf_dr_start_reg, buf_dr_addr_reg,
                   buf_dr_len_reg, avgRegs, switch_avg, switch_buf, dma_avg, dma_buf>>

\* AxisAvgBuffer.enable
Enable ==
    /\ avg_start_reg' = 1
    /\ buf_start_reg' = 1
    /\ last' = [op |-> "enable", status |-> "ok"]
    /\ UNCHANGED <<avg_addr_reg, avg_len_reg, avg_dr_start_reg, avg_dr_addr_reg,
                   avg_dr_len_reg, buf_addr_reg, buf_len_reg, buf_dr_start_reg,
                   buf_dr_addr_reg, buf_dr_len_reg,
                   switch_avg, switch_buf, dma_avg, dma_buf>>

\* AxisAvgBuffer.config_avg
ConfigAvg(address, length) ==
    /\ avg_start_reg' = 0
    /\ avg_addr_reg' = address
    /\ avg_len_reg' = length
    /\ last' = AvgCall("config_avg", address, length, "ok")
    /\ UNCHANGED <<avg_dr_start_reg, avg_dr_addr_reg, avg_dr_len_reg, bufRegs,
                   switch_avg, switch_buf, dma_avg, dma_buf>>

\* config_buf with the length check before the buffer is disabled
ConfigBuf_CheckFirst(address, length) ==
    /\ IF length >= buf_maxlen
       THEN /\ last' = AvgCall("config_buf", address, length, "too_long")
            /\ UNCHANGED <<buf_start_reg, buf_addr_reg, buf_len_reg>>
       ELSE /\ buf_start_reg' = 0
            /\ buf_addr_reg' = address
            /\ buf_len_reg' = length
            /\ last' = AvgCall("config_buf", address, length, "ok")
    /\ UNCHANGED <<buf_dr_start_reg, buf_dr_addr_reg, buf_dr_len_reg, avgRegs,
                   switch_avg, switch_buf, dma_avg, dma_buf>>

\* AxisAvgBuffer.config_buf
ConfigBuf(address, length) ==
    /\ buf_start_reg' = 0
    /\ IF length >= buf_maxlen
       THEN \* raise RuntimeError("requested length=%d longer or equal to ...")
            /\ last' = AvgCall("config_buf", address, length, "too_long")
            /\ UNCHANGED <<buf_addr_reg, buf_len_reg>>
       ELSE /\ buf_addr_reg' = address
            /\ buf_len_reg' = length
            /\ last' = AvgCall("config_buf", address, length, "ok")
    /\ UNCHANGED <<buf_dr_start_reg, buf_dr_addr_reg, buf_dr_len_reg, avgRegs,
                   switch_avg, switch_buf, dma_avg, dma_buf>>

\* config that configures the averaging buffer only
Config_AvgOnly(address, length) ==
    /\ avg_start_reg' = 0
    /\ avg_addr_reg' = address
    /\ avg_len_reg' = length
    /\ last' = AvgCall("config", address, length, "ok")
    /\ UNCHANGED <<avg_dr_start_reg, avg_dr_addr_reg, avg_dr_len_reg, bufRegs,
                   switch_avg, switch_buf, dma_avg, dma_buf>>

\* AxisAvgBuffer.config: config_avg, then config_buf
Config(address, length) ==
    /\ avg_start_reg' = 0
    /\ avg_addr_reg' = address
    /\ avg_len_reg' = length
    /\ buf_start_reg' = 0
    /\ IF length >= buf_maxlen
       THEN /\ last' = AvgCall("config", address, length, "too_long")
            /\ UNCHANGED <<buf_addr_reg, buf_len_reg>>
       ELSE /\ buf_addr_reg' = address
            /\ buf_len_reg' = length
            /\ last' = AvgCall("config", address, length, "ok")
    /\ UNCHANGED <<avg_dr_start_reg, avg_dr_addr_reg, avg_dr_len_reg,
                   buf_dr_start_reg, buf_dr_addr_reg, buf_dr_len_reg,
                   switch_avg, switch_buf, dma_avg, dma_buf>>

\* transfer_avg that disables the capture before it reads the buffer out
TransferAvg_Disarm(address, length, transferred) ==
    IF length >= avg_maxlen
    THEN /\ last' = AvgCall("transfer_avg", address, length, "too_long")
         /\ UNCHANGED avgVars
    ELSE LET transferlen == PadEven(length)
         IN  /\ avg_start_reg' = 0
             /\ switch_avg' = switch_ch
             /\ avg_dr_addr_reg' = address
             /\ avg_dr_len_reg' = transferlen
             /\ dma_avg' = [nbytes |-> transferlen * AvgItemSize,
                            transferred |-> transferred]
             /\ avg_dr_start_reg' = 0
             /\ IF transferred # transferlen * AvgItemSize
                THEN last' = AvgCall("transfer_avg", address, length, "dma_mismatch")
                ELSE last' = AvgCall("transfer_avg", address, length, "ok") @@
                             [npairs |-> Rows(avg_maxlen, length,
                                              AvgItemSize, AvgViewSize)]
             /\ UNCHANGED <<avg_addr_reg, avg_len_reg, bufRegs,
                            switch_buf, dma_buf>>

\* transfer_avg with the length check after the switch and the data-reader
\* registers are programmed
TransferAvg_CheckLate(address, length, transferred) ==
    LET transferlen == PadEven(length)
    IN  /\ switch_avg' = switch_ch
        /\ avg_dr_addr_reg' = address
        /\ avg_dr_len_reg' = transferlen
        /\ avg_dr_start_reg' = 0
        /\ IF length >= avg_maxlen
           THEN /\ last' = AvgCall("transfer_avg", address, length, "too_long")
                /\ UNCHANGED dma_avg
           ELSE /\ dma_avg' = [nbytes |-> transferlen * AvgItemSize,
                               transferred |-> transferred]
                /\ IF transferred # transferlen * AvgItemSize
                   THEN last' = AvgCall("transfer_avg", address, length,
                                        "dma_mismatch")
                   ELSE last' = AvgCall("transfer_avg", address, length, "ok") @@
                                [npairs |-> Rows(avg_maxlen, length,
                                                 AvgItemSize, AvgViewSize)]
        /\ UNCHANGED <<avg_start_reg, avg_addr_reg, avg_len_reg, bufRegs,
                       switch_buf, dma_buf>>

\* AxisAvgBuffer.transfer_avg; transferred is what the DMA reports after wait()
TransferAvg(address, length, transferred) ==
    IF length >= avg_maxlen
    THEN \* raise RuntimeError("length=%d longer than %d")
         /\ last' = AvgCall("transfer_avg", address, length, "too_long")
         /\ UNCHANGED avgVars
    ELSE LET transferlen == PadEven(length)
         IN  /\ switch_avg' = switch_ch
             /\ avg_dr_addr_reg' = address
             /\ avg_dr_len_reg' = transferlen
             \* avg_dr_start_reg = 1 ; the DMA runs ; avg_dr_start_reg = 0
             /\ dma_avg' = [nbytes |-> transferlen * AvgItemSize,
                            transferred |-> transferred]
             /\ avg_dr_start_reg' = 0
             /\ IF transferred # transferlen * AvgItemSize
                THEN \* raise RuntimeError("Requested %d samples but only got ...")
                     last' = AvgCall("transfer_avg", address, length, "dma_mismatch")
                ELSE last' = AvgCall("transfer_avg", address, length, "ok") @@
                             [npairs |-> Rows(avg_maxlen, length,
                                              AvgItemSize, AvgViewSize)]
             /\ UNCHANGED <<avg_start_reg, avg_addr_reg, avg_len_reg, bufRegs,
                            switch_buf, dma_buf>>

\* AxisAvgBuffer.transfer_buf
TransferBuf(address, length, transferred) ==
    IF length >= buf_maxlen
    THEN /\ last' = AvgCall("transfer_buf", address, length, "too_long")
         /\ UNCHANGED avgVars
    ELSE LET transferlen == PadEven(length)
         IN  /\ switch_buf' = switch_ch
             /\ buf_dr_addr_reg' = address
             /\ buf_dr_len_reg' = transferlen
             \* buf_dr_start_reg = 1 ; the DMA runs
             /\ dma_buf' = [nbytes |-> transferlen * BufItemSize,
                            transferred |-> transferred]
             /\ IF transferred # transferlen * BufItemSize
                THEN \* raise RuntimeError(...), before buf_dr_start_reg = 0
                     /\ buf_dr_start_reg' = 1
                     /\ last' = AvgCall("transfer_buf", address, length,
                                        "dma_mismatch")
                ELSE /\ buf_dr_start_reg' = 0
                     /\ last' = AvgCall("transfer_buf", address, length, "ok") @@
                                [npairs |-> Rows(buf_maxlen, length,
                                                 BufItemSize, BufViewSize)]
             /\ UNCHANGED <<buf_start_reg, buf_addr_reg, buf_len_reg, avgRegs,
                            switch_avg, dma_avg>>

\* AxisAvgBuffer.__init__ : the four start registers are cleared, the others
\* hold their reset value; the switches select port 0; no DMA transfer yet
InitAvg ==
    /\ avg_start_reg = 0
    /\ avg_dr_start_reg = 0
    /\ buf_start_reg = 0
    /\ buf_dr_start_reg = 0
    /\ avg_addr_reg = 0
    /\ avg_len_reg = 0
    /\ avg_dr_addr_reg = 0
    /\ avg_dr_len_reg = 0
    /\ buf_addr_reg = 0
    /\ buf_len_reg = 0
    /\ buf_dr_addr_reg = 0
    /\ buf_dr_len_reg = 0
    /\ switch_avg = 0
    /\ switch_buf = 0
    /\ dma_avg = [nbytes |-> 0, transferred |-> 0]
    /\ dma_buf = [nbytes |-> 0, transferred |-> 0]

---------------------------------------------------------------------------
(* Two AxisAvgBuffer blocks whose transfers go through the same switch and   *)
(* the same DMA, one of each for the "avg" and for the "buf" path, with      *)
(* transfer_avg and transfer_buf run statement by statement.  A block is     *)
(* "idle" when it is in no transfer call, else at the statement it executes  *)
(* next.                                                                     *)

Bufs == {0, 1}
Paths == {"avg", "buf"}
\* self.switch_ch of a block: the blocks are on the ports 0 and 1
SwitchCh(b) == b
\* bytes of a sample on a path: transferlen*8 and transferlen*4
ItemSize(k) == IF k = "avg" THEN AvgItemSize ELSE BufItemSize
ViewSize(k) == IF k = "avg" THEN AvgViewSize ELSE BufViewSize
\* self['avg_maxlen'], self['buf_maxlen']
PathMaxLen(k) == IF k = "avg" THEN avg_maxlen ELSE buf_maxlen

ShInCall == {"sel", "dr_addr", "dr_len", "start", "dma", "wait", "stop", "check"}
NoCall == [kind |-> "none", address |-> 0, length |-> 0, transferlen |-> 0,
           ndma |-> 0]
\* lengths handed to the transfers of the two blocks: an even one, an odd one,
\* and the capacity
ShLenInputs == {100, 101, avg_maxlen}

\* a block enters transfer_avg / transfer_buf (address, length):
\* if length >= self['..._maxlen']: raise RuntimeError ;
\* transferlen = length + (length % 2)
ShCall(b, k, address, length) ==
    /\ sh_pc[b] = "idle"
    /\ sh_call' = [sh_call EXCEPT ![b] =
                      [kind |-> k, address |-> address, length |-> length,
                       transferlen |-> PadEven(length), ndma |-> 0]]
    /\ IF length >= PathMaxLen(k)
       THEN /\ sh_ret' = [sh_ret EXCEPT ![b] = [status |-> "too_long"]]
            /\ UNCHANGED sh_pc
       ELSE /\ sh_ret' = [sh_ret EXCEPT ![b] = [status |-> "running"]]
            /\ sh_pc' = [sh_pc EXCEPT ![b] = "sel"]
    /\ UNCHANGED <<sh_dr, sh_switch, sh_dma>>

\* self.switch_avg.sel(slv=self.switch_ch)
ShSel(b) ==
    /\ sh_pc[b] = "sel"
    /\ sh_switch' = [sh_switch EXCEPT ![sh_call[b].kind] = SwitchCh(b)]
    /\ sh_pc' = [sh_pc EXCEPT ![b] = "dr_addr"]
    /\ UNCHANGED <<sh_call, sh_ret, sh_dr, sh_dma>>

\* self.avg_dr_addr_reg = address
ShDrAddr(b) ==
    /\ sh_pc[b] = "dr_addr"
    /\ sh_dr' = [sh_dr EXCEPT ![b][sh_call[b].kind].addr = sh_call[b].address]
    /\ sh_pc' = [sh_pc EXCEPT ![b] = "dr_len"]
    /\ UNCHANGED <<sh_call, sh_ret, sh_switch, sh_dma>>

\* self.avg_dr_len_reg = transferlen
ShDrLen(b) ==
    /\ sh_pc[b] = "dr_len"
    /\ sh_dr' = [sh_dr EXCEPT ![b][sh_call[b].kind].len = sh_call[b].transferlen]
    /\ sh_pc' = [sh_pc EXCEPT ![b] = "start"]
    /\ UNCHANGED <<sh_call, sh_ret, sh_switch, sh_dma>>

\* self.avg_dr_start_reg = 1
ShStart(b) ==
    /\ sh_pc[b] = "start"
    /\ sh_dr' = [sh_dr EXCEPT ![b][sh_call[b].kind].start = 1]
    /\ sh_pc' = [sh_pc EXCEPT ![b] = "dma"]
    /\ UNCHANGED <<sh_call, sh_ret, sh_switch, sh_dma>>

\* self.dma_avg.recvchannel.transfer(buff, nbytes=int(transferlen*8))
ShDma(b) ==
    /\ sh_pc[b] = "dma"
    /\ LET k == sh_call[b].kind
       IN  sh_dma' = [sh_dma EXCEPT ![k].nbytes = sh_call[b].transferlen * ItemSize(k),
                                    ![k].waiters = @ \cup {b}]
    /\ sh_call' = [sh_call EXCEPT ![b].ndma = @ + 1]
    /\ sh_pc' = [sh_pc EXCEPT ![b] = "wait"]
    /\ UNCHANGED <<sh_ret, sh_dr, sh_switch>>

\* wait() that may give up before the DMA is done
ShWait_Timeout(b) ==
    /\ sh_pc[b] = "wait"
    /\ LET k == sh_call[b].kind
       IN  \/ /\ \E t \in DmaTransferred(sh_dma[k].nbytes, ItemSize(k)) :
                     sh_dma' = [sh_dma EXCEPT ![k].transferred = t,
                                              ![k].waiters = @ \ {b}]
              /\ sh_pc' = [sh_pc EXCEPT ![b] = IF k = "avg" THEN "stop" ELSE "check"]
              /\ UNCHANGED sh_ret
           \/ /\ sh_dma' = [sh_dma EXCEPT ![k].waiters = @ \ {b}]
              /\ sh_pc' = [sh_pc EXCEPT ![b] = "idle"]
              /\ sh_ret' = [sh_ret EXCEPT ![b] = [status |-> "timeout"]]
    /\ UNCHANGED <<sh_call, sh_dr, sh_switch>>

\* wait() of a transfer that looks at the switch when the DMA is done and fails
\* when the switch selects another port
ShWait_Detect(b) ==
    /\ sh_pc[b] = "wait"
    /\ LET k == sh_call[b].kind
       IN  /\ \E t \in DmaTransferred(sh_dma[k].nbytes, ItemSize(k)) :
                  sh_dma' = [sh_dma EXCEPT ![k].transferred = t,
                                           ![k].waiters = @ \ {b}]
           /\ IF sh_switch[k] # SwitchCh(b)
              THEN /\ sh_pc' = [sh_pc EXCEPT ![b] = "idle"]
                   /\ sh_ret' = [sh_ret EXCEPT ![b] = [status |-> "misrouted"]]
              ELSE /\ sh_pc' = [sh_pc EXCEPT ![b] =
                                   IF k = "avg" THEN "stop" ELSE "check"]
                   /\ UNCHANGED sh_ret
    /\ UNCHANGED <<sh_call, sh_dr, sh_switch>>

\* self.dma_avg.recvchannel.wait() returns; transfer_avg clears the send flag
\* next, transfer_buf looks at the byte count next
ShWait(b) ==
    /\ sh_pc[b] = "wait"
    /\ LET k == sh_call[b].kind
       IN  /\ \E t \in DmaTransferred(sh_dma[k].nbytes, ItemSize(k)) :
                  sh_dma' = [sh_dma EXCEPT ![k].transferred = t,
                                           ![k].waiters = @ \ {b}]
           /\ sh_pc' = [sh_pc EXCEPT ![b] = IF k = "avg" THEN "stop" ELSE "check"]
    /\ UNCHANGED <<sh_call, sh_ret, sh_dr, sh_switch>>

\* self.avg_dr_start_reg = 0 ; in transfer_buf this is the last register write,
\* and data.copy() is returned
ShStop(b) ==
    /\ sh_pc[b] = "stop"
    /\ LET k == sh_call[b].kind
       IN  /\ sh_dr' = [sh_dr EXCEPT ![b][k].start = 0]
           /\ IF k = "avg"
              THEN /\ sh_pc' = [sh_pc EXCEPT ![b] = "check"]
                   /\ UNCHANGED sh_ret
              ELSE /\ sh_pc' = [sh_pc EXCEPT ![b] = "idle"]
                   /\ sh_ret' = [sh_ret EXCEPT ![b] =
                                    [status |-> "ok",
                                     npairs |-> Rows(PathMaxLen(k), sh_call[b].length,
                                                     ItemSize(k), ViewSize(k))]]
    /\ UNCHANGED <<sh_call, sh_switch, sh_dma>>

\* the byte count check, starting the DMA again when the count is short
ShCheck_Retry(b) ==
    /\ sh_pc[b] = "check"
    /\ LET k == sh_call[b].kind
       IN  IF sh_dma[k].transferred # sh_call[b].transferlen * ItemSize(k)
           THEN /\ sh_pc' = [sh_pc EXCEPT ![b] = "dma"]
                /\ UNCHANGED sh_ret
           ELSE IF k = "avg"
                THEN /\ sh_pc' = [sh_pc EXCEPT ![b] = "idle"]
                     /\ sh_ret' = [sh_ret EXCEPT ![b] =
                                      [status |-> "ok",
                                       npairs |-> Rows(PathMaxLen(k),
                                                       sh_call[b].length,
                                                       ItemSize(k), ViewSize(k))]]
                ELSE /\ sh_pc' = [sh_pc EXCEPT ![b] = "stop"]
                     /\ UNCHANGED sh_ret
    /\ UNCHANGED <<sh_call, sh_dr, sh_switch, sh_dma>>

\* if self.dma_avg.recvchannel.transferred != transferlen*8: raise RuntimeError ;
\* in transfer_avg data.copy() is returned next
ShCheck(b) ==
    /\ sh_pc[b] = "check"
    /\ LET k == sh_call[b].kind
       IN  IF sh_dma[k].transferred # sh_call[b].transferlen * ItemSize(k)
           THEN /\ sh_pc' = [sh_pc EXCEPT ![b] = "idle"]
                /\ sh_ret' = [sh_ret EXCEPT ![b] = [status |-> "dma_mismatch"]]
           ELSE IF k = "avg"
                THEN /\ sh_pc' = [sh_pc EXCEPT ![b] = "idle"]
                     /\ sh_ret' = [sh_ret EXCEPT ![b] =
                                      [status |-> "ok",
                                       npairs |-> Rows(PathMaxLen(k),
                                                       sh_call[b].length,
                                                       ItemSize(k), ViewSize(k))]]
                ELSE /\ sh_pc' = [sh_pc EXCEPT ![b] = "stop"]
                     /\ UNCHANGED sh_ret
    /\ UNCHANGED <<sh_call, sh_dr, sh_switch, sh_dma>>

\* both blocks constructed: the send flags are cleared, the other registers hold
\* their reset value, the switches select port 0, no DMA transfer yet
InitShared ==
    /\ sh_pc = [b \in Bufs |-> "idle"]
    /\ sh_call = [b \in Bufs |-> NoCall]
    /\ sh_ret = [b \in Bufs |-> [status |-> "none"]]
    /\ sh_dr = [b \in Bufs |-> [k \in Paths |-> [start |-> 0, addr |-> 0, len |-> 0]]]
    /\ sh_switch = [k \in Paths |-> 0]
    /\ sh_dma = [k \in Paths |-> [nbytes |-> 0, transferred |-> 0, waiters |-> {}]]

---------------------------------------------------------------------------
(* AxisPFBReadoutV2.set_out *)

\* {"product": 0, "input": 1, "dds": 2}
OutselMap == [product |-> 0, input |-> 1, dds |-> 2]
\* names handed to set_out: the three modes, and a name that is no mode
SelInputs == {"product", "input", "dds", "other"}

\* set_out that takes every mode, whatever was set before
SetOut_Overwrite(s) ==
    /\ sel' = s
    /\ IF s \in DOMAIN OutselMap
       THEN /\ outsel_reg' = OutselMap[s]
            /\ last' = [op |-> "set_out", sel |-> s, prior |-> sel, status |-> "ok"]
       ELSE /\ UNCHANGED outsel_reg
            /\ last' = [op |-> "set_out", sel |-> s, prior |-> sel,
                        status |-> "key_error"]
    /\ UNCHANGED <<ch_freqs, out_chs, ch_sel_reg, pfb_freq_reg>>

\* AxisPFBReadoutV2.set_out; prior is self.sel when the call began
SetOut(s) ==
    IF sel # "None" /\ s # sel
    THEN \* raise RuntimeError("trying to set output mode to %s, but mode was ...")
         /\ last' = [op |-> "set_out", sel |-> s, prior |-> sel,
                     status |-> "mode_conflict"]
         /\ UNCHANGED <<pfbVars, outsel_reg>>
    ELSE /\ sel' = s
         /\ IF s \in DOMAIN OutselMap
            THEN /\ outsel_reg' = OutselMap[s]
                 /\ last' = [op |-> "set_out", sel |-> s, prior |-> sel,
                             status |-> "ok"]
            ELSE \* KeyError of the dict lookup, after self.sel = sel
                 /\ UNCHANGED outsel_reg
                 /\ last' = [op |-> "set_out", sel |-> s, prior |-> sel,
                             status |-> "key_error"]
         /\ UNCHANGED <<ch_freqs, out_chs, ch_sel_reg, pfb_freq_reg>>

---------------------------------------------------------------------------
(* AxisReadoutV2: the single-channel readout.  A call records the register  *)
(* writes it made, in order.                                                 *)

\* the value a register holds after the writes of a log: the last one written
\* to it, or its old value
RECURSIVE AfterWrites(_, _, _)
AfterWrites(log, reg, old) ==
    IF log = <<>> THEN old
    ELSE IF log[Len(log)][1] = reg THEN log[Len(log)][2]
         ELSE AfterWrites(SubSeq(log, 1, Len(log) - 1), reg, old)

\* AxisReadoutV2.update: self.we_reg = 1 ; self.we_reg = 0
RO_Update == << <<"we_reg", 1>>, <<"we_reg", 0>> >>

\* {"product": 0, "dds": 1, "input": 2}
RO_OutselMap == [product |-> 0, dds |-> 1, input |-> 2]

\* self.cfg['f_dds'] = self['fs']/self['decimation']
RO_f_dds == [num |-> fs, den |-> decimation]

\* the registers after the writes of a call
RO_Apply(log) ==
    /\ ro_freq_reg' = AfterWrites(log, "freq_reg", ro_freq_reg)
    /\ ro_outsel_reg' = AfterWrites(log, "outsel_reg", ro_outsel_reg)
    /\ we_reg' = AfterWrites(log, "we_reg", we_reg)
    /\ UNCHANGED <<ro_phase_reg, ro_nsamp_reg, ro_mode_reg>>

\* set_freq_int that refuses to replace a word that is already set
RO_SetFreqInt_Collide(f_int) ==
    IF ro_freq_reg # 0 /\ ro_freq_reg # f_int
    THEN /\ last' = [op |-> "ro_set_freq_int", f_int |-> f_int,
                     prior |-> ro_freq_reg,
                     status |-> "collision", writes |-> <<>>]
         /\ UNCHANGED roVars
    ELSE LET log == << <<"freq_reg", f_int>> >> \o RO_Update
         IN  /\ RO_Apply(log)
             /\ last' = [op |-> "ro_set_freq_int", f_int |-> f_int,
                         prior |-> ro_freq_reg,
                         status |-> "ok", writes |-> log]

\* AxisReadoutV2.set_freq_int: self.freq_reg = np.int64(f_int) ; self.update() ;
\* prior is freq_reg when the call began
RO_SetFreqInt(f_int) ==
    LET log == << <<"freq_reg", f_int>> >> \o RO_Update
    IN  /\ RO_Apply(log)
        /\ last' = [op |-> "ro_set_freq_int", f_int |-> f_int,
                    prior |-> ro_freq_reg,
                    status |-> "ok", writes |-> log]

\* AxisReadoutV2.set_freq with gen_ch=None: ro_freq = f % f_dds, then
\* set_freq_int(freq2int(ro_freq))
RO_SetFreq(f) ==
    LET ro_freq == [num |-> (f * RO_f_dds.den) % RO_f_dds.num, den |-> RO_f_dds.den]
    IN  RO_SetFreqInt(Freq2Int(ro_freq, RO_f_dds))

\* AxisReadoutV2.set_out
RO_SetOut(s) ==
    IF s \in DOMAIN RO_OutselMap
    THEN LET log == << <<"outsel_reg", RO_OutselMap[s]>> >> \o RO_Update
         IN  /\ RO_Apply(log)
             /\ last' = [op |-> "ro_set_out", sel |-> s, status |-> "ok",
                         writes |-> log]
    ELSE /\ last' = [op |-> "ro_set_out", sel |-> s, status |-> "key_error",
                     writes |-> <<>>]
         /\ UNCHANGED roVars

\* AxisReadoutV2.__init__ : the default registers, then update()
InitRO ==
    /\ ro_freq_reg = 0
    /\ ro_phase_reg = 0
    /\ ro_nsamp_reg = 10
    /\ ro_outsel_reg = 0
    /\ ro_mode_reg = 1
    /\ we_reg = 0

---------------------------------------------------------------------------
(* AxisBufferDdrV1 and MrBufferEt *)

\* self.DATA_WIDTH = int(description['parameters']['DATA_WIDTH'])
DATA_WIDTH == 32
\* self.BURST_SIZE = int(description['parameters']['BURST_SIZE']) + 1, of the
\* blocks that are modelled
BurstSizes == {1, 4}
\* self.cfg['burst_len'] = self.DATA_WIDTH*self.BURST_SIZE//32
BurstLen(burst_size) == (DATA_WIDTH * burst_size) \div 32
\* self.cfg['junk_len'] = 50*self.DATA_WIDTH//32 + 1
junk_len == ((50 * DATA_WIDTH) \div 32) + 1
\* self.cfg['maxlen'] = self.ddr4_array.shape[0]
ddr_maxlen == 64

\* values of an np.int16
Int16(x) == IF x >= 32768 THEN x - 65536 ELSE x
\* one uint32 viewed as two int16, the low half first
View16(w) == <<Int16(w % 65536), Int16(w \div 65536)>>

\* self.ddr4_array, the memory as uint32 words: the word at offset i holds the
\* int16 pair (-(i+1), i)
Ddr4Array == [i \in 1 .. ddr_maxlen |-> (65536 - i) + 65536 * (i - 1)]

\* a[lo:hi] of Python for a sequence: negative offsets count from the end, and
\* offsets beyond the ends are clipped
PyOffset(x, n) ==
    IF x < 0 THEN (IF x + n < 0 THEN 0 ELSE x + n) ELSE (IF x > n THEN n ELSE x)
PySlice(a, lo, hi) ==
    LET l == PyOffset(lo, Len(a))
        h == PyOffset(hi, Len(a))
    IN  IF l < h THEN SubSeq(a, l + 1, h) ELSE <<>>

\* a window copied as it is, without widening to even offsets and trimming
GetMemData_Unaligned(start, end) ==
    LET out == PySlice(Ddr4Array, start - (start % 2), end)
    IN  [i \in 1 .. Len(out) |-> View16(out[i])]

\* buf_copy = self.ddr4_array[start - (start%2):end + (end%2)].copy()
\* buf_copy[start%2:length + start%2].view(dtype=np.int16).reshape((-1,2))
GetMemData(start, end) ==
    LET length == end - start
        buf_copy == PySlice(Ddr4Array, start - (start % 2), end + (end % 2))
        out == PySlice(buf_copy, start % 2, length + (start % 2))
    IN  [i \in 1 .. Len(out) |-> View16(out[i])]

\* the record of a get_mem call: the window, the offsets of the slice that is
\* copied, and the array returned
GetMemCall(nt, start_arg, start, end) ==
    [op |-> "get_mem", nt |-> nt, start_arg |-> start_arg,
     window |-> <<start, end>>,
     copied |-> <<start - (start % 2), end + (end % 2)>>,
     data |-> GetMemData(start, end), status |-> "ok"]

\* get_mem(nt) taking the window from offset 0
GetMemDefault_NoJunk(nt) ==
    /\ last' = GetMemCall(nt, <<>>, 0, nt * burst_len)
    /\ UNCHANGED ringVars

\* AxisBufferDdrV1.get_mem(nt): start = junk_len ; end = nt*burst_len
GetMemDefault(nt) ==
    /\ last' = GetMemCall(nt, <<>>, junk_len, nt * burst_len)
    /\ UNCHANGED ringVars

\* AxisBufferDdrV1.get_mem(nt, start): end = start + nt*burst_len
GetMemFrom(nt, start) ==
    /\ last' = GetMemCall(nt, <<start>>, start, start + nt * burst_len)
    /\ UNCHANGED ringVars

\* rstop, rstart, wstop, wstart, wlen
Rstop ==
    /\ rstart_reg' = 0
    /\ last' = [op |-> "rstop", status |-> "ok"]
    /\ UNCHANGED <<raddr_reg, rlength_reg, wstart_reg, waddr_reg, wnburst_reg,
                   burst_len, dw_capture_reg, dr_start_reg, has_switch, ring_switch>>
Rstart ==
    /\ rstart_reg' = 1
    /\ last' = [op |-> "rstart", status |-> "ok"]
    /\ UNCHANGED <<raddr_reg, rlength_reg, wstart_reg, waddr_reg, wnburst_reg,
                   burst_len, dw_capture_reg, dr_start_reg, has_switch, ring_switch>>
Wstop ==
    /\ wstart_reg' = 0
    /\ last' = [op |-> "wstop", status |-> "ok"]
    /\ UNCHANGED <<rstart_reg, raddr_reg, rlength_reg, waddr_reg, wnburst_reg,
                   burst_len, dw_capture_reg, dr_start_reg, has_switch, ring_switch>>
Wstart ==
    /\ wstart_reg' = 1
    /\ last' = [op |-> "wstart", status |-> "ok"]
    /\ UNCHANGED <<rstart_reg, raddr_reg, rlength_reg, waddr_reg, wnburst_reg,
                   burst_len, dw_capture_reg, dr_start_reg, has_switch, ring_switch>>
Wlen(len_) ==
    /\ wnburst_reg' = len_
    /\ last' = [op |-> "wlen", len_ |-> len_, status |-> "ok"]
    /\ UNCHANGED <<rstart_reg, raddr_reg, rlength_reg, wstart_reg, waddr_reg,
                   burst_len, dw_capture_reg, dr_start_reg, has_switch, ring_switch>>

\* the record of an arm call: the registers it wrote, in order, and whether the
\* write side was started when the call began
ArmCall(nt, force_overwrite, status, writes) ==
    [op |-> "arm", nt |-> nt, force_overwrite |-> force_overwrite,
     status |-> status, writes |-> writes, started |-> wstart_reg]

\* arm that starts the write side without stopping it first
Arm_NoStop(nt, force_overwrite) ==
    IF nt > (ddr_maxlen \div burst_len) /\ ~force_overwrite
    THEN /\ last' = ArmCall(nt, force_overwrite, "overwrite", <<>>)
         /\ UNCHANGED ringVars
    ELSE /\ wnburst_reg' = nt
         /\ wstart_reg' = 1
         /\ last' = ArmCall(nt, force_overwrite, "ok",
                            << <<"wnburst_reg", nt>>, <<"wstart_reg", 1>> >>)
         /\ UNCHANGED <<rstart_reg, raddr_reg, rlength_reg, waddr_reg, burst_len,
                        dw_capture_reg, dr_start_reg, has_switch, ring_switch>>

\* AxisBufferDdrV1.arm: wlen(nt) ; wstop() ; wstart()
Arm(nt, force_overwrite) ==
    IF nt > (ddr_maxlen \div burst_len) /\ ~force_overwrite
    THEN \* raise RuntimeError("the requested number of DDR4 transfers ...")
         /\ last' = ArmCall(nt, force_overwrite, "overwrite", <<>>)
         /\ UNCHANGED ringVars
    ELSE /\ wnburst_reg' = nt
         /\ wstart_reg' = 1
         /\ last' = ArmCall(nt, force_overwrite, "ok",
                            << <<"wnburst_reg", nt>>, <<"wstart_reg", 0>>,
                               <<"wstart_reg", 1>> >>)
         /\ UNCHANGED <<rstart_reg, raddr_reg, rlength_reg, waddr_reg, burst_len,
                        dw_capture_reg, dr_start_reg, has_switch, ring_switch>>

\* self.buf2switch: with a switch, the buffer of the readout on each input of
\* the switch; without one, the buffer of the single readout, at 0
Buf2Switch ==
    IF has_switch
    THEN [n \in {"axis_avg_buffer_0", "axis_avg_buffer_1"} |->
              IF n = "axis_avg_buffer_0" THEN 0 ELSE 1]
    ELSE [n \in {"axis_avg_buffer_0"} |-> 0]
\* names handed to set_switch
BufNames == {"axis_avg_buffer_0", "axis_avg_buffer_1", "axis_avg_buffer_2"}

\* set_switch that routes nothing and only checks the name
SetSwitch_NoRoute(bufname) ==
    /\ IF bufname \notin DOMAIN Buf2Switch
       THEN last' = [op |-> "set_switch", bufname |-> bufname,
                     status |-> "key_error"]
       ELSE last' = [op |-> "set_switch", bufname |-> bufname, status |-> "ok"]
    /\ UNCHANGED ringVars

\* AxisBufferDdrV1.set_switch, MrBufferEt.set_switch
SetSwitch(bufname) ==
    IF bufname \notin DOMAIN Buf2Switch
    THEN \* KeyError of self.buf2switch[bufname]
         /\ last' = [op |-> "set_switch", bufname |-> bufname,
                     status |-> "key_error"]
         /\ UNCHANGED ringVars
    ELSE IF ~has_switch
         THEN \* assert self.buf2switch[bufname]==0
              /\ last' = [op |-> "set_switch", bufname |-> bufname,
                          status |-> IF Buf2Switch[bufname] = 0
                                     THEN "ok" ELSE "assertion_error"]
              /\ UNCHANGED ringVars
         ELSE \* self.switch.sel(slv=self.buf2switch[bufname])
              /\ ring_switch' = Buf2Switch[bufname]
              /\ last' = [op |-> "set_switch", bufname |-> bufname, status |-> "ok"]
              /\ UNCHANGED <<ddrRegs, burst_len, dw_capture_reg, dr_start_reg,
                             has_switch>>

\* MrBufferEt.enable, MrBufferEt.disable
MR_Enable ==
    /\ dw_capture_reg' = 1
    /\ last' = [op |-> "mr_enable", status |-> "ok"]
    /\ UNCHANGED <<ddrRegs, burst_len, dr_start_reg, has_switch, ring_switch>>
MR_Disable ==
    /\ dw_capture_reg' = 0
    /\ last' = [op |-> "mr_disable", status |-> "ok"]
    /\ UNCHANGED <<ddrRegs, burst_len, dr_start_reg, has_switch, ring_switch>>

\* MrBufferEt.transfer: dr_start_reg = 1 ; the DMA runs ; dr_start_reg = 0
MR_Transfer ==
    /\ dr_start_reg' = 0
    /\ last' = [op |-> "mr_transfer", status |-> "ok",
                writes |-> << <<"dr_start_reg", 1>>, <<"dr_start_reg", 0>> >>]
    /\ UNCHANGED <<ddrRegs, burst_len, dw_capture_reg, has_switch, ring_switch>>

\* AxisBufferDdrV1.__init__ and MrBufferEt.__init__ : the default registers; the
\* block has a switch at its input or is wired to a single readout
InitRing(burst_size, switch) ==
    /\ rstart_reg = 0
    /\ raddr_reg = 0
    /\ rlength_reg = 10
    /\ wstart_reg = 0
    /\ waddr_reg = 0
    /\ wnburst_reg = 10
    /\ burst_len = BurstLen(burst_size)
    /\ dw_capture_reg = 0
    /\ dr_start_reg = 0
    /\ has_switch = switch
    /\ ring_switch = 0

---------------------------------------------------------------------------
(* Specifications. *)

Constructed == [op |-> "__init__", status |-> "ok"]
RingBlocks == {"DDR", "MR"}
NoLocals == [op |-> "none"]

\* the driver object of a block of class b, as its constructor leaves it
InitBlock(b) ==
    /\ block = b
    /\ ncalls = 0
    /\ locals = NoLocals
    /\ InitPFB
    /\ InitWide
    /\ InitAvg
    /\ InitThreads
    /\ InitShared
    /\ outsel_reg = 0
    /\ InitRO
    /\ \E burst_size \in (IF b \in RingBlocks THEN BurstSizes ELSE {4}),
          switch \in (IF b \in RingBlocks THEN BOOLEAN ELSE {TRUE}) :
           InitRing(burst_size, switch)
    /\ last = Constructed

\* the 8-channel filter bank driven through set_freq_int and initialize,
\* MaxCallsPFB calls in a run
CallSetFreqInt ==
    \E f_int \in Words, in_ch \in ChInputs, out_ch \in OutInputs :
        SetFreqInt(f_int, in_ch, out_ch)

NextPFB ==
    /\ ncalls < MaxCallsPFB
    /\ ncalls' = ncalls + 1
    /\ CallSetFreqInt \/ Initialize
    /\ UNCHANGED <<block, locals, wideVars, avgVars, thVars, shVars, outsel_reg, roVars, ringVars>>

SpecPFB == InitBlock("V2") /\ [][NextPFB]_vars

\* the output mode of the 8-channel filter bank: set_out and initialize,
\* MaxCallsPFB calls in a run
CallSetOut == \E s \in SelInputs : SetOut(s)

NextOut ==
    /\ ncalls < MaxCallsPFB
    /\ ncalls' = ncalls + 1
    /\ \/ CallSetOut
       \/ Initialize /\ UNCHANGED outsel_reg
       \/ CallSetFreqInt /\ UNCHANGED outsel_reg
    /\ UNCHANGED <<block, locals, wideVars, avgVars, thVars, shVars, roVars,
                   ringVars>>

SpecOut == InitBlock("V2") /\ [][NextOut]_vars

\* the single-channel readout driven through its calls, MaxCallsPFB calls in a
\* run
RO_CallSetFreqInt == \E f_int \in Words : RO_SetFreqInt(f_int)
RO_CallSetFreq == \E f \in FreqInputs : RO_SetFreq(f)
RO_CallSetOut == \E s \in SelInputs : RO_SetOut(s)

NextRO ==
    /\ ncalls < MaxCallsPFB
    /\ ncalls' = ncalls + 1
    /\ RO_CallSetFreqInt \/ RO_CallSetFreq \/ RO_CallSetOut
    /\ UNCHANGED <<block, locals, pfbVars, wideVars, avgVars, thVars, shVars,
                   outsel_reg, ringVars>>

SpecRO == InitBlock("RO") /\ [][NextRO]_vars

\* the DDR4 buffer and the multi-rate buffer driven through their calls,
\* MaxCalls calls in a run
NtInputs == {0, 1, 12, 13, 16, 17, 43, 52, ddr_maxlen, ddr_maxlen + 1}
StartInputs == 0 .. (7 + MaxAddr)

CallGetMemDefault == block = "DDR" /\ \E nt \in NtInputs : GetMemDefault(nt)
CallGetMemFrom ==
    block = "DDR" /\ \E nt \in NtInputs, start \in StartInputs : GetMemFrom(nt, start)
CallArm == block = "DDR" /\ \E nt \in NtInputs, force \in BOOLEAN : Arm(nt, force)
CallWlen == block = "DDR" /\ \E len_ \in NtInputs : Wlen(len_)
CallSetSwitch == \E bufname \in BufNames : SetSwitch(bufname)

NextRing ==
    /\ ncalls < MaxCalls
    /\ ncalls' = ncalls + 1
    /\ \/ CallGetMemDefault \/ CallGetMemFrom \/ CallArm \/ CallWlen
       \/ block = "DDR" /\ Rstop
       \/ block = "DDR" /\ Rstart
       \/ block = "DDR" /\ Wstop
       \/ block = "DDR" /\ Wstart
       \/ CallSetSwitch
       \/ block = "MR" /\ MR_Enable
       \/ block = "MR" /\ MR_Disable
       \/ block = "MR" /\ MR_Transfer
    /\ UNCHANGED <<block, locals, pfbVars, wideVars, avgVars, thVars, shVars,
                   outsel_reg, roVars>>

SpecRing == (\E b \in RingBlocks : InitBlock(b)) /\ [][NextRing]_vars

\* the statements of the transfers of the two blocks
ShStep ==
    \E b \in Bufs :
        \/ ShSel(b)
        \/ ShDrAddr(b)
        \/ ShDrLen(b)
        \/ ShStart(b)
        \/ ShDma(b)
        \/ ShWait(b)
        \/ ShStop(b)
        \/ ShCheck(b)

\* a block starts a transfer while no other transfer is running: the callers
\* serialize the transfers
ShCallSerial ==
    /\ ncalls < MaxCalls
    /\ \A o \in Bufs : sh_pc[o] = "idle"
    /\ \E b \in Bufs, k \in Paths, a \in AddrInputs, n \in ShLenInputs :
           ShCall(b, k, a, n)

\* a block starts a transfer whatever the other block is doing
ShCallAny ==
    /\ ncalls < MaxCalls
    /\ \E b \in Bufs, k \in Paths, a \in AddrInputs, n \in ShLenInputs :
           ShCall(b, k, a, n)

NextSerial ==
    /\ \/ ShCallSerial /\ ncalls' = ncalls + 1
       \/ ShStep /\ UNCHANGED ncalls
    /\ UNCHANGED <<block, locals, pfbVars, wideVars, avgVars, thVars, last, outsel_reg, roVars, ringVars>>

SpecSerial == InitBlock("V2") /\ [][NextSerial]_vars

NextShared ==
    /\ \/ ShCallAny /\ ncalls' = ncalls + 1
       \/ ShStep /\ UNCHANGED ncalls
    /\ UNCHANGED <<block, locals, pfbVars, wideVars, avgVars, thVars, last, outsel_reg, roVars, ringVars>>

SpecShared == InitBlock("V2") /\ [][NextShared]_vars

\* the statements of a transfer that the caller's thread executes: all but the
\* completion of the DMA
ShProgramStep(b) ==
    /\ \/ ShSel(b)
       \/ ShDrAddr(b)
       \/ ShDrLen(b)
       \/ ShStart(b)
       \/ ShDma(b)
       \/ ShStop(b)
       \/ ShCheck(b)
    /\ UNCHANGED <<block, ncalls, locals, pfbVars, wideVars, avgVars, thVars, last,
                   outsel_reg, roVars, ringVars>>

\* serialized transfers in which the thread of a call keeps running: a statement
\* that can be executed eventually is; the DMA may or may not complete
SpecLive == SpecSerial /\ \A b \in Bufs : WF_vars(ShProgramStep(b))

\* the frequency codec applied to a frequency and the DDS range of a block
CodecDds == {V2_f_dds, Wide_f_dds, RO_f_dds}
Convert(f, f_dds) ==
    LET word == Freq2Int([num |-> f, den |-> 1], f_dds)
        back == Int2Freq(word, f_dds)
    IN  /\ last' = [op |-> "freq2int", f |-> f, f_dds |-> f_dds, word |-> word,
                    back |-> back, again |-> Freq2Int(back, f_dds)]
        /\ UNCHANGED <<block, ncalls, locals, pfbVars, wideVars, avgVars, thVars,
                       shVars, outsel_reg, roVars, ringVars>>

NextCodec == \E f \in FreqInputs, f_dds \in CodecDds : Convert(f, f_dds)

SpecCodec == InitBlock("V2") /\ [][NextCodec]_vars

\* two threads calling set_freq_int of one 8-channel filter bank, their
\* statements interleaved, MaxCalls calls in a run
ThCallAny ==
    /\ ncalls < MaxCalls
    /\ ncalls' = ncalls + 1
    /\ \E t \in Threads, f_int \in Words, in_ch \in ChInputs, out_ch \in OutInputs :
           ThCall(t, f_int, in_ch, out_ch)

ThStep ==
    /\ \E t \in Threads :
           \/ ThCheck(t)
           \/ ThSetChFreqs(t)
           \/ ThSetOutChs(t)
           \/ ThSetChSel(t)
           \/ ThSetFreqReg(t)
    /\ UNCHANGED ncalls

NextThreads ==
    /\ ThCallAny \/ ThStep
    /\ UNCHANGED <<block, locals, wideVars, avgVars, shVars, last, outsel_reg, roVars, ringVars>>

SpecThreads == InitBlock("V2") /\ [][NextThreads]_vars

\* the wide filter banks driven through set_freq_int
V3_CallSetFreqInt ==
    /\ block = "V3"
    /\ \E f_int \in Words, pfb_ch \in PfbChInputs, out_ch \in WideOutInputs :
           V3_SetFreqInt(f_int, pfb_ch, out_ch)

V4_CallSetFreqInt ==
    /\ block = "V4"
    /\ \E f_int \in Words, pfb_ch \in PfbChInputs, out_ch \in WideOutInputs :
           V4_SetFreqInt(f_int, pfb_ch, out_ch)

NextWide ==
    /\ V3_CallSetFreqInt \/ V4_CallSetFreqInt
    /\ UNCHANGED <<block, ncalls, locals, pfbVars, avgVars, thVars, shVars, outsel_reg, roVars, ringVars>>

SpecWide == (\E b \in {"V3", "V4"} : InitBlock(b)) /\ [][NextWide]_vars

\* the filter banks driven through set_freq, MaxCalls calls in a run
V2_CallSetFreq ==
    /\ block = "V2"
    /\ \E f \in FreqInputs, out_ch \in {0, NOUT_V2 - 1} : V2_SetFreq(f, out_ch)
    /\ UNCHANGED wideVars

V2_CallInitialize ==
    /\ block = "V2"
    /\ Initialize
    /\ UNCHANGED <<locals, wideVars>>

V3_CallSetFreq ==
    /\ block = "V3"
    /\ \E f \in FreqInputs, out_ch \in {0, NOUT_V3 - 1} : V3_SetFreq(f, out_ch)
    /\ UNCHANGED pfbVars

V4_CallSetFreq ==
    /\ block = "V4"
    /\ \E f \in FreqInputs, out_ch \in {0, NOUT_V4 - 1} : V4_SetFreq(f, out_ch)
    /\ UNCHANGED pfbVars

NextSetFreq ==
    /\ ncalls < MaxCalls
    /\ ncalls' = ncalls + 1
    /\ V2_CallSetFreq \/ V2_CallInitialize \/ V3_CallSetFreq \/ V4_CallSetFreq
    /\ UNCHANGED <<block, avgVars, thVars, shVars, outsel_reg, roVars, ringVars>>

SpecSetFreq == (\E b \in {"V2", "V3", "V4"} : InitBlock(b)) /\ [][NextSetFreq]_vars

\* one averaging/raw buffer driven through its calls, MaxCalls calls in a run
CallConfigAvg == \E a \in AddrInputs, n \in LenInputs : ConfigAvg(a, n)
CallConfigBuf == \E a \in AddrInputs, n \in LenInputs : ConfigBuf(a, n)
CallConfig == \E a \in AddrInputs, n \in LenInputs : Config(a, n)
CallTransferAvg ==
    \E a \in AddrInputs, n \in LenInputs :
        \E t \in DmaTransferred(PadEven(n) * AvgItemSize, AvgItemSize) :
            TransferAvg(a, n, t)
CallTransferBuf ==
    \E a \in AddrInputs, n \in LenInputs :
        \E t \in DmaTransferred(PadEven(n) * BufItemSize, BufItemSize) :
            TransferBuf(a, n, t)

NextAvg ==
    /\ ncalls < MaxCalls
    /\ ncalls' = ncalls + 1
    /\ \/ CallConfigAvg \/ CallConfigBuf \/ CallConfig
       \/ EnableAvg \/ DisableAvg \/ EnableBuf \/ DisableBuf \/ Enable
       \/ CallTransferAvg \/ CallTransferBuf
    /\ UNCHANGED <<block, locals, pfbVars, wideVars, thVars, shVars, outsel_reg, roVars, ringVars>>

SpecAvg == InitBlock("V2") /\ [][NextAvg]_vars

---------------------------------------------------------------------------
(* Claims about AxisPFBReadoutV2.set_freq_int and initialize, under SpecPFB. *)

IsSetFreqInt(r) == r.op = "set_freq_int"

\* C1: set_freq_int(f_int, in_ch, out_ch) called when in_ch already has a
\* committed word different from f_int fails with a collision error and writes
\* nothing: ch_freqs, out_chs, every freqN_reg and every chNsel_reg are the
\* same after the failed call as before it.
C1_CollisionWritesNothing ==
    [][ (/\ IsSetFreqInt(last')
         /\ last'.in_ch \in DOMAIN ch_freqs
         /\ ch_freqs[last'.in_ch] # last'.f_int)
        => (/\ last'.status = "collision"
            /\ UNCHANGED <<ch_freqs, out_chs, pfb_freq_reg, ch_sel_reg>>) ]_vars

\* C1 witness: a call has just failed on a channel committed to another word.
C1_Witness ==
    /\ IsSetFreqInt(last)
    /\ last.status = "collision"
    /\ last.prior # <<>>
    /\ last.prior[1] # last.f_int
    /\ ch_freqs[last.in_ch] = last.prior[1]

\* C2: if channel c is committed with word w by output o1, set_freq_int(w, c, o2)
\* for another output o2 succeeds, leaves the committed word and the freq
\* register of c equal to w, sets o2's channel-select register to c and leaves
\* the channel-select register of every other output, o1's among them, as it was.
C2_IdempotentFanOut ==
    [][ (/\ IsSetFreqInt(last')
         /\ last'.in_ch \in DOMAIN ch_freqs
         /\ ch_freqs[last'.in_ch] = last'.f_int
         /\ last'.out_ch \in V2Outputs
         /\ out_chs[last'.in_ch] # last'.out_ch)
        => (/\ last'.status = "ok"
            /\ ch_freqs'[last'.in_ch] = last'.f_int
            /\ pfb_freq_reg'[last'.in_ch] = last'.f_int
            /\ ch_sel_reg'[last'.out_ch] = last'.in_ch
            /\ \A o1 \in V2Outputs \ {last'.out_ch} :
                   ch_sel_reg'[o1] = ch_sel_reg[o1]) ]_vars

\* C2 witness: output o2 has just joined a channel that output o1 committed with
\* the same word, and both outputs are routed to that channel.
C2_Witness ==
    /\ IsSetFreqInt(last)
    /\ last.status = "ok"
    /\ last.prior # <<>>
    /\ last.prior[1] = last.f_int
    /\ last.prior[2] \in V2Outputs \ {last.out_ch}
    /\ last.out_ch \in V2Outputs
    /\ ch_sel_reg[last.prior[2]] = last.in_ch
    /\ ch_sel_reg[last.out_ch] = last.in_ch
    /\ pfb_freq_reg[last.in_ch] = last.f_int

\* C3: ch_freqs is empty right after initialize(), and between two initialize()
\* calls the word committed for a channel never changes: a step that changes or
\* removes a committed word is an initialize().
C3_CommittedWordSingleValued ==
    /\ [](last.op \in {"initialize", "__init__"} => DOMAIN ch_freqs = {})
    /\ [][ \A c \in DOMAIN ch_freqs :
              \/ (c \in DOMAIN ch_freqs' /\ ch_freqs'[c] = ch_freqs[c])
              \/ (last'.op = "initialize" /\ DOMAIN ch_freqs' = {}) ]_vars

\* C3 witness: a second request for a committed channel, with another word, has
\* been made and the committed word is still the first one.
C3_Witness ==
    /\ IsSetFreqInt(last)
    /\ last.prior # <<>>
    /\ last.f_int # last.prior[1]
    /\ last.in_ch \in DOMAIN ch_freqs
    /\ ch_freqs[last.in_ch] = last.prior[1]

---------------------------------------------------------------------------
(* Claims about set_freq of the filter banks, under SpecSetFreq. *)

Abs(x) == IF x < 0 THEN 0 - x ELSE x

\* the number of PFB channels and the DC channel of the block
BlockN == IF block = "V2" THEN 8 ELSE N_PFB
BlockChOffset == IF block = "V2" THEN 4 ELSE N_PFB \div 2

\* the channel the last set_freq_int was called with
LastCh == IF block = "V2" THEN last.in_ch ELSE last.pfb_ch

\* set_freq was the last call
AfterSetFreq ==
    /\ locals.op = "set_freq"
    /\ last.op \in {"set_freq_int", "set_freq_int_wide"}

\* C4: for every integer f_steps, positive, zero or negative, set_freq selects
\* the channel ch with 0 <= ch < N and ch = CH_OFFSET + f_steps - k*N for an
\* integer k, and hands it to set_freq_int; with N = 8 and CH_OFFSET = 4,
\* f_steps = 1 selects channel 5.
C4_ChannelIndex ==
    AfterSetFreq =>
        /\ locals.ch \in 0 .. (BlockN - 1)
        /\ \E k \in (0 - Abs(locals.f_steps) - 1) .. (Abs(locals.f_steps) + 1) :
               BlockChOffset + locals.f_steps = k * BlockN + locals.ch
        /\ LastCh = locals.ch
        /\ (block = "V2" /\ locals.f_steps = 1) => locals.ch = 5
        /\ (block = "V2" /\ last.status = "ok") =>
               ch_sel_reg[locals.out_ch] = locals.ch

\* C4 witness: on the 8-channel bank one output was set with f_steps = 1 and
\* sits on channel 5, and the last request had CH_OFFSET + f_steps < 0 and was
\* wired to its channel.
C4_Witness ==
    /\ block = "V2"
    /\ AfterSetFreq
    /\ last.status = "ok"
    /\ CH_OFFSET + locals.f_steps < 0
    /\ ch_sel_reg[locals.out_ch] = (CH_OFFSET + locals.f_steps) % 8
    /\ ch_sel_reg[0] = 5
    /\ 5 \in DOMAIN ch_freqs
    /\ locals.out_ch # 0

\* C5: the zone index of set_freq is nqz = floor(f / (fs/2)) + 1, that is
\* (nqz-1)*fs/2 <= f < nqz*fs/2; the frequency used for the channel selection
\* is -f when nqz is even and f when nqz is odd; and f_steps is the integer
\* nearest to that folded frequency divided by f_dds/2, so the folding comes
\* before the channel index.
C5_NyquistFolding ==
    AfterSetFreq =>
        /\ (locals.nqz - 1) * fs <= 2 * locals.f
        /\ 2 * locals.f < locals.nqz * fs
        /\ locals.ro_freq = IF locals.nqz % 2 = 0 THEN 0 - locals.f ELSE locals.f
        /\ LET f_dds == IF block = "V2" THEN V2_f_dds ELSE Wide_f_dds
           IN  2 * Abs(locals.ro_freq * 2 * f_dds.den - locals.f_steps * f_dds.num)
                   <= f_dds.num

\* C5 witness: a frequency of the second zone was requested, was negated, and
\* the channel was chosen below the DC channel.
C5_Witness ==
    /\ AfterSetFreq
    /\ locals.f > 0
    /\ locals.nqz = 2
    /\ locals.ro_freq = 0 - locals.f
    /\ locals.f_steps < 0
    /\ LastCh = (BlockChOffset + locals.f_steps) % BlockN

\* C6 as stated: with fs = 100, f = 120 is in zone 2 and is folded to -120, and
\* f = 220 is in zone 3 and keeps its sign.
C6_AsStated ==
    (fs = 100 /\ AfterSetFreq) =>
        /\ locals.f = 120 => (locals.nqz = 2 /\ locals.ro_freq = -120)
        /\ locals.f = 220 => (locals.nqz = 3 /\ locals.ro_freq = 220)

\* C6, amended: with fs = 100, f = 120 is in zone 3 (odd) and keeps its sign,
\* f = 220 is in zone 5 (odd) and keeps its sign, and f = 60 is in zone 2 (even)
\* and is folded to -60.
C6_ZoneExamples ==
    (fs = 100 /\ AfterSetFreq) =>
        /\ locals.f = 120 => (locals.nqz = 3 /\ locals.ro_freq = 120)
        /\ locals.f = 220 => (locals.nqz = 5 /\ locals.ro_freq = 220)
        /\ locals.f = 60 => (locals.nqz = 2 /\ locals.ro_freq = -60)

\* C6 witness: f = 120 was requested with fs = 100 and kept its sign.
C6_Witness ==
    /\ fs = 100
    /\ AfterSetFreq
    /\ locals.f = 120
    /\ locals.nqz = 3
    /\ locals.ro_freq = 120

---------------------------------------------------------------------------
(* Claims about the output index and the id encoding. *)

\* C7: set_freq_int with an output index outside 0..NOUT-1 fails with an error
\* and changes no register and no tracked assignment, in AxisPFBReadoutV2
\* (4 outputs) and in AxisPFBReadoutV3/V4 (NOUT outputs).
C7_OutputRangeChecked ==
    [][ /\ (IsSetFreqInt(last') /\ last'.out_ch \notin V2Outputs)
            => (last'.status # "ok" /\ UNCHANGED pfbVars)
        /\ (last'.op = "set_freq_int_wide" /\ last'.out_ch \notin WideOutputs)
            => (last'.status # "ok" /\ UNCHANGED wideVars) ]_vars

\* C8: for every channel ch in 0..N-1 the value set_freq_int writes to the id
\* register of the output is (lane << 8) | packet with packet = ch div L_PFB and
\* lane = ch mod L_PFB; the encoding is injective on 0..N-1 and ch is recovered as
\* packet * L_PFB + lane from the low byte (packet) and the bits above it (lane).
C8_IdEncoding ==
    /\ (last.op = "set_freq_int_wide" /\ last.status = "ok") =>
           /\ id_reg[last.out_ch]
                  = (last.pfb_ch % L_PFB) * 256 + (last.pfb_ch \div L_PFB)
           /\ (id_reg[last.out_ch] % 256) * L_PFB + (id_reg[last.out_ch] \div 256)
                  = last.pfb_ch
    /\ \A ch \in 0 .. (N_PFB - 1) :
           /\ IdVal(ch) = (ch % L_PFB) * 256 + (ch \div L_PFB)
           /\ (IdVal(ch) % 256) * L_PFB + (IdVal(ch) \div 256) = ch
           /\ IdVal(ch) % 256 = ch \div L_PFB
    /\ Cardinality({IdVal(ch) : ch \in 0 .. (N_PFB - 1)}) = N_PFB

\* C8 witness: channel 9 (packet 1, lane 1) was bound to an output, whose id
\* register reads 0x0101.
C8_Witness ==
    /\ last.op = "set_freq_int_wide"
    /\ last.status = "ok"
    /\ last.pfb_ch = 9
    /\ id_reg[last.out_ch] = 257

---------------------------------------------------------------------------
(* Claims about AxisAvgBuffer, under SpecAvg. *)

\* C9: config_avg(address, length) succeeds when length < avg_maxlen and fails
\* with a range error, recording no window, when length >= avg_maxlen; hence
\* avg_len_reg < avg_maxlen after every config_avg.
C9_ConfigAvgRange ==
    /\ last.op = "config_avg" =>
           /\ last.length < avg_maxlen => last.status = "ok"
           /\ last.length >= avg_maxlen => last.status = "too_long"
    /\ avg_len_reg < avg_maxlen

IsTransfer(r) == r.op \in {"transfer_avg", "transfer_buf"}

\* the data-reader length register and the DMA request of the last transfer,
\* and the bytes of one sample
LastDrLen == IF last.op = "transfer_avg" THEN avg_dr_len_reg ELSE buf_dr_len_reg
LastDma == IF last.op = "transfer_avg" THEN dma_avg ELSE dma_buf
LastItemSize == IF last.op = "transfer_avg" THEN AvgItemSize ELSE BufItemSize

\* C10: for every length 0 <= length that transfer_avg or transfer_buf accepts,
\* the length written to the data-reader length register and asked of the DMA is
\* the length rounded up to the next even number, and the array returned has
\* exactly length (I, Q) pairs; a request of 101 transfers 102 samples and
\* returns 101 pairs.
C10_EvenPadding ==
    (IsTransfer(last) /\ last.status # "too_long") =>
        /\ LastDrLen % 2 = 0
        /\ LastDrLen \in {last.length, last.length + 1}
        /\ LastDma.nbytes = LastDrLen * LastItemSize
        /\ last.status = "ok" => last.npairs = last.length
        /\ last.length = 101 => LastDrLen = 102

\* C10 witness: transfer_avg of 101 samples returned 101 pairs after a DMA of
\* 102 samples.
C10_Witness ==
    /\ last.op = "transfer_avg"
    /\ last.status = "ok"
    /\ last.length = 101
    /\ last.npairs = 101
    /\ avg_dr_len_reg = 102
    /\ dma_avg = [nbytes |-> 816, transferred |-> 816]


AvgOps == {"config_avg", "enable_avg", "disable_avg", "transfer_avg"}
BufOps == {"config_buf", "enable_buf", "disable_buf", "transfer_buf"}
\* a step of the buffer specification is one call
IsCall == ncalls' # ncalls

\* C16: config_avg leaves the averaging buffer disabled and config_buf leaves the
\* raw buffer disabled, whatever the buffer was before the call; a config_buf
\* with length >= buf_maxlen is rejected with buf_addr_reg and buf_len_reg
\* unchanged and the raw buffer disabled all the same, and an accepted one
\* records the window.
C16_ConfigDisables ==
    [][IsCall =>
          /\ last'.op = "config_avg" => avg_start_reg' = 0
          /\ last'.op = "config_buf" =>
                 /\ buf_start_reg' = 0
                 /\ IF last'.length >= buf_maxlen
                    THEN /\ last'.status = "too_long"
                         /\ UNCHANGED <<buf_addr_reg, buf_len_reg>>
                    ELSE /\ last'.status = "ok"
                         /\ buf_addr_reg' = last'.address
                         /\ buf_len_reg' = last'.length]_vars

\* an armed raw buffer was handed a config_buf that was rejected, and is disabled
C16_Witness ==
    /\ last.op = "config_buf"
    /\ last.status = "too_long"
    /\ last.armed[2] = 1
    /\ buf_start_reg = 0

\* C17: config_avg, enable_avg, disable_avg and transfer_avg leave the six buf
\* registers unchanged, and config_buf, enable_buf, disable_buf and transfer_buf
\* leave the six avg registers unchanged.
C17_SubUnitsIndependent ==
    [][IsCall =>
          /\ last'.op \in AvgOps => UNCHANGED bufRegs
          /\ last'.op \in BufOps => UNCHANGED avgRegs]_vars

\* enable_avg ran on a block whose raw buffer holds a window and is disabled
C17_Witness ==
    /\ last.op = "enable_avg"
    /\ avg_start_reg = 1
    /\ buf_start_reg = 0
    /\ buf_addr_reg = 1
    /\ buf_len_reg = 101

\* C18: after a config(address, length) that succeeded the averaging window and
\* the raw window are both (address, length) and both buffers are disabled;
\* after enable() both buffers are armed.
C18_CombinedConfigEnable ==
    /\ (last.op = "config" /\ last.status = "ok") =>
           /\ avg_addr_reg = last.address /\ avg_len_reg = last.length
           /\ buf_addr_reg = last.address /\ buf_len_reg = last.length
           /\ avg_start_reg = 0 /\ buf_start_reg = 0
    /\ last.op = "enable" => (avg_start_reg = 1 /\ buf_start_reg = 1)

\* config(1, 101) succeeded on a block both of whose buffers were armed
C18_Witness ==
    /\ last.op = "config"
    /\ last.status = "ok"
    /\ last.armed = <<1, 1>>
    /\ last.address = 1
    /\ last.length = 101
    /\ buf_len_reg = 101

\* C19: transfer_avg and transfer_buf are refused only for length >= maxlen,
\* whatever the state of the buffer, and never change the start, addr and len
\* registers of either buffer; a transfer changes only its own data-reader
\* registers, its switch and its DMA.
C19_TransferFrame ==
    [][(IsCall /\ IsTransfer(last')) =>
          /\ UNCHANGED <<avg_start_reg, avg_addr_reg, avg_len_reg,
                         buf_start_reg, buf_addr_reg, buf_len_reg>>
          /\ last'.status = "too_long" <=>
                 last'.length >= (IF last'.op = "transfer_avg"
                                  THEN avg_maxlen ELSE buf_maxlen)
          /\ last'.op = "transfer_avg" =>
                 UNCHANGED <<buf_dr_start_reg, buf_dr_addr_reg, buf_dr_len_reg,
                             switch_buf, dma_buf>>
          /\ last'.op = "transfer_buf" =>
                 UNCHANGED <<avg_dr_start_reg, avg_dr_addr_reg, avg_dr_len_reg,
                             switch_avg, dma_avg>>]_vars

\* transfer_avg returned its data on a block whose averaging buffer is armed
C19_Witness ==
    /\ last.op = "transfer_avg"
    /\ last.status = "ok"
    /\ last.armed[1] = 1
    /\ avg_start_reg = 1
    /\ switch_avg = switch_ch

\* C20: every transfer_avg / transfer_buf that reaches the DMA has address plus
\* padded transfer length within the capacity of its buffer.
C20_TransferWithinRegion ==
    (IsTransfer(last) /\ last.status # "too_long") =>
        last.address + LastDrLen <=
            (IF last.op = "transfer_avg" THEN avg_maxlen ELSE buf_maxlen)

---------------------------------------------------------------------------
(* Transfers of two blocks on a shared path. *)

\* the byte count a block at its check compares: what the DMA reports against
\* the padded length times the sample size
ShShort(b) ==
    sh_dma[sh_call[b].kind].transferred #
        sh_call[b].transferlen * ItemSize(sh_call[b].kind)

\* C11: in transfer_avg and transfer_buf, when the byte count the DMA reports
\* after the wait differs from the padded length times the sample size, the call
\* ends with the transfer error and returns no sample array, and when it does
\* not differ the call does not end with that error; a call starts the DMA at
\* most once, so a failed transfer is not retried.
C11_TransferIntegrity ==
    /\ [](\A b \in Bufs : sh_call[b].ndma <= 1)
    /\ [][\A b \in Bufs :
            (sh_pc[b] = "check" /\ sh_pc'[b] # "check") =>
                IF ShShort(b)
                THEN /\ sh_pc'[b] = "idle"
                     /\ sh_ret'[b] = [status |-> "dma_mismatch"]
                     /\ "npairs" \notin DOMAIN sh_ret'[b]
                     /\ sh_dma' = sh_dma
                ELSE sh_ret'[b].status # "dma_mismatch"]_vars

\* a transfer_buf of 101 samples (102 asked of the DMA, 408 bytes) of which the
\* DMA reports 404 bytes has failed, and a transfer_avg has failed the same way
C11_Witness ==
    \E b \in Bufs :
        /\ sh_pc[b] = "idle"
        /\ sh_ret[b] = [status |-> "dma_mismatch"]
        /\ sh_call[b].length = 101
        /\ sh_call[b].ndma = 1
        /\ \/ /\ sh_call[b].kind = "buf"
              /\ sh_dma["buf"] = [nbytes |-> 408, transferred |-> 404, waiters |-> {}]
           \/ /\ sh_call[b].kind = "avg"
              /\ sh_dma["avg"] = [nbytes |-> 816, transferred |-> 808, waiters |-> {}]

\* C12: in every transfer the send flag is cleared before the byte count is
\* verified, so the send flag of a path is 0 both while the block is at the
\* verification and whenever the block is in no transfer call, whether its last
\* call returned or failed.
C12_SendFlagCleared ==
    \A b \in Bufs :
        /\ sh_pc[b] = "check" => sh_dr[b][sh_call[b].kind].start = 0
        /\ sh_pc[b] = "idle" => \A k \in Paths : sh_dr[b][k].start = 0

\* C13: in every transfer, when the DMA is started the switch has been set to
\* the block's own port, the data-reader registers hold (address, padded length)
\* and the send flag is asserted; with the transfers run one at a time the
\* switch of a path selects the port of every block whose send flag on that
\* path is asserted; and the selection changes only by a select of a transfer.
C13_SwitchRouted ==
    /\ [](\A b \in Bufs :
            /\ sh_pc[b] \in {"dma", "wait"} =>
                   LET k == sh_call[b].kind
                   IN  /\ sh_switch[k] = SwitchCh(b)
                       /\ sh_dr[b][k] = [start |-> 1, addr |-> sh_call[b].address,
                                         len |-> sh_call[b].transferlen]
            /\ \A k \in Paths : sh_dr[b][k].start = 1 => sh_switch[k] = SwitchCh(b))
    /\ [][\A k \in Paths :
            sh_switch'[k] # sh_switch[k] =>
                \E b \in Bufs : /\ sh_pc[b] = "sel"
                                /\ sh_call[b].kind = k
                                /\ sh_switch'[k] = SwitchCh(b)]_vars

\* a block has asserted its send flag and waits for the DMA while the switch of
\* the path selects another port
Misrouted(b) ==
    /\ sh_pc[b] = "wait"
    /\ b \in sh_dma[sh_call[b].kind].waiters
    /\ sh_dr[b][sh_call[b].kind].start = 1
    /\ sh_switch[sh_call[b].kind] # SwitchCh(b)

\* C14: with the statements of the transfers of two blocks on one path
\* interleaved, a block can be waiting for its DMA with its send flag asserted
\* while the switch selects the other block's port (the witness), and nothing
\* detects it: the wait of such a block returns like any other, the call goes on
\* to its next statement with no error recorded and the switch left as it is.
C14_MisroutingUndetected ==
    [][\A b \in Bufs :
          (Misrouted(b) /\ sh_pc'[b] # sh_pc[b]) =>
              /\ sh_pc'[b] = (IF sh_call[b].kind = "avg" THEN "stop" ELSE "check")
              /\ sh_ret'[b] = [status |-> "running"]
              /\ sh_switch' = sh_switch]_vars

\* block 0 waits for its DMA on the avg path, send flag asserted, and the switch
\* selects port 1, set by block 1 which is inside its own transfer_avg
C14_Witness ==
    /\ Misrouted(0)
    /\ sh_call[0].kind = "avg"
    /\ sh_call[1].kind = "avg"
    /\ sh_pc[1] \in ShInCall
    /\ sh_switch["avg"] = SwitchCh(1)

---------------------------------------------------------------------------
(* set_freq_int of the 8-channel filter bank called from two threads. *)

\* C15: when a thread runs the collision check after the other thread's call for
\* the same mixing channel with a different word has returned and that word is
\* the committed one, the call fails with the collision error and writes
\* nothing; with the statements interleaved both calls can return normally (the
\* witness).
C15_SerialCollision ==
    [][\A t \in Threads, o \in Threads :
          ( /\ t # o
            /\ th_pc[t] = "check" /\ th_pc'[t] # "check"
            /\ th_pc[o] = "ok"
            /\ th_args[o].in_ch = th_args[t].in_ch
            /\ th_args[o].f_int # th_args[t].f_int
            /\ th_args[t].in_ch \in DOMAIN ch_freqs
            /\ ch_freqs[th_args[t].in_ch] = th_args[o].f_int )
          => /\ th_pc'[t] = "collision"
             /\ UNCHANGED pfbVars]_vars

\* both threads' calls for channel 4 have returned normally, thread 1 with word
\* 1 for output 0 and thread 2 with word 2 for output 1: both outputs are routed
\* to channel 4, whose frequency register holds a single word
C15_Witness ==
    /\ th_pc = [t \in Threads |-> "ok"]
    /\ th_args[1] = [f_int |-> 1, in_ch |-> CH_OFFSET, out_ch |-> 0]
    /\ th_args[2] = [f_int |-> 2, in_ch |-> CH_OFFSET, out_ch |-> 1]
    /\ ch_sel_reg[0] = CH_OFFSET
    /\ ch_sel_reg[1] = CH_OFFSET
    /\ pfb_freq_reg[CH_OFFSET] = 2
    /\ ch_freqs[CH_OFFSET] = 1


---------------------------------------------------------------------------
(* AxisBufferDdrV1 and MrBufferEt, under SpecRing. *)

\* C21: arm(nt, force_overwrite) fails, having written no register, exactly
\* when nt * burst_len > maxlen and force_overwrite is false; otherwise it
\* writes wnburst_reg = nt, then wstart_reg = 0, then wstart_reg = 1, so that
\* afterwards wnburst_reg = nt and wstart_reg = 1.
C21_Arm ==
    /\ [](last.op = "arm" =>
            /\ last.status = "overwrite" <=>
                   (last.nt * burst_len > ddr_maxlen /\ ~last.force_overwrite)
            /\ last.status = "overwrite" => last.writes = <<>>
            /\ last.status # "overwrite" =>
                   /\ last.status = "ok"
                   /\ last.writes = << <<"wnburst_reg", last.nt>>,
                                       <<"wstart_reg", 0>>, <<"wstart_reg", 1>> >>
                   /\ wnburst_reg = last.nt
                   /\ wstart_reg = 1)
    /\ [][(IsCall /\ last'.op = "arm" /\ last'.status = "overwrite") =>
              UNCHANGED ringVars]_vars

\* arm(17, force_overwrite=True) of a block with bursts of 4 samples, more than
\* the 64 samples of the memory, on a write side that was already started
C21_Witness ==
    /\ last.op = "arm"
    /\ last.status = "ok"
    /\ last.started = 1
    /\ last.nt = 17
    /\ burst_len = 4
    /\ last.force_overwrite
    /\ wnburst_reg = 17
    /\ wstart_reg = 1

Min(a, b) == IF a < b THEN a ELSE b
Max(a, b) == IF a < b THEN b ELSE a

\* the array get_mem returns holds the words of the memory at the offsets
\* start, start+1, .. in order, each as its (low, high) int16 pair
DataIsMemoryFrom(data, start) ==
    \A i \in 1 .. Len(data) : data[i] = View16(Ddr4Array[start + i])

\* the offsets of the slice that is copied are the window widened to the
\* nearest even offsets
WidenedToEven(copied, start, end) ==
    /\ copied[1] % 2 = 0 /\ copied[2] % 2 = 0
    /\ copied[1] \in {start - 1, start}
    /\ copied[2] \in {end, end + 1}

\* C22 as stated: for every window [start, end) of get_mem with
\* 0 <= start <= end the slice copied is the window widened to even offsets and
\* the array returned holds exactly end - start samples, the memory from start
\* to end in order.
C22_AsStated ==
    (last.op = "get_mem" /\ 0 <= last.window[1] /\ last.window[1] <= last.window[2])
    => /\ WidenedToEven(last.copied, last.window[1], last.window[2])
       /\ Len(last.data) = last.window[2] - last.window[1]
       /\ DataIsMemoryFrom(last.data, last.window[1])

\* C22: for every window [start, end) of get_mem with 0 <= start <= end the
\* slice asked of the memory is the window widened to even offsets, and the
\* array returned holds the memory from start on, in order: end - start samples
\* when the window lies within the memory (end <= maxlen), else only the samples
\* up to the end of the memory; the window [7, 50) is widened to [6, 50) and
\* returns 43 samples.
C22_AlignedRead ==
    (last.op = "get_mem" /\ 0 <= last.window[1] /\ last.window[1] <= last.window[2])
    => /\ WidenedToEven(last.copied, last.window[1], last.window[2])
       /\ Len(last.data) =
              Max(0, Min(last.window[2], ddr_maxlen) - last.window[1])
       /\ DataIsMemoryFrom(last.data, last.window[1])
       /\ last.window = <<7, 50>> =>
              (last.copied = <<6, 50>> /\ Len(last.data) = 43)

\* get_mem(43, start=7) with bursts of one sample: the window [7, 50), the
\* slice [6, 50), 43 samples, the first one the word at offset 7
C22_Witness ==
    /\ last.op = "get_mem"
    /\ last.window = <<7, 50>>
    /\ last.copied = <<6, 50>>
    /\ Len(last.data) = 43
    /\ last.data[1] = <<-8, 7>>

\* C23: set_switch(bufname) on a block with a switch sets the switch to the
\* port of bufname (0 for the first buffer, 1 for the second); on a block without
\* a switch it changes nothing and succeeds exactly for the buffer at index 0.
C23_SetSwitch ==
    [][(IsCall /\ last'.op = "set_switch") =>
          IF has_switch
          THEN /\ last'.bufname = "axis_avg_buffer_0" =>
                      (last'.status = "ok" /\ ring_switch' = 0)
               /\ last'.bufname = "axis_avg_buffer_1" =>
                      (last'.status = "ok" /\ ring_switch' = 1)
               /\ last'.status # "ok" => UNCHANGED ringVars
          ELSE /\ UNCHANGED ringVars
               /\ last'.status = "ok" <=> last'.bufname = "axis_avg_buffer_0"]_vars

\* the switch of a multi-rate buffer was set to the port of the second buffer
C23_Witness ==
    /\ block = "MR"
    /\ has_switch
    /\ last.op = "set_switch"
    /\ last.bufname = "axis_avg_buffer_1"
    /\ last.status = "ok"
    /\ ring_switch = 1

\* the number of samples of the call's bursts
LastBurstSamples == last.nt * burst_len

\* C28 as stated: get_mem(nt, start) reads the window
\* [start, start + nt*burst_len) and returns nt*burst_len samples; get_mem(nt)
\* reads [junk_len, nt*burst_len) and returns nt*burst_len - junk_len samples,
\* none when nt*burst_len <= junk_len.
C28_AsStated ==
    last.op = "get_mem" =>
        IF last.start_arg # <<>>
        THEN /\ last.window = <<last.start_arg[1], last.start_arg[1] + LastBurstSamples>>
             /\ Len(last.data) = LastBurstSamples
        ELSE /\ last.window = <<junk_len, LastBurstSamples>>
             /\ Len(last.data) = Max(0, LastBurstSamples - junk_len)

\* C28: get_mem(nt, start) reads the window [start, start + nt*burst_len) and
\* get_mem(nt) the window [junk_len, nt*burst_len); when the window lies within
\* the memory the first returns nt*burst_len samples and the second
\* nt*burst_len - junk_len samples (none when nt*burst_len <= junk_len); of a
\* window that ends beyond the memory only the samples up to the end of the
\* memory are returned.
C28_GetMemWindow ==
    last.op = "get_mem" =>
        /\ IF last.start_arg # <<>>
           THEN /\ last.window =
                       <<last.start_arg[1], last.start_arg[1] + LastBurstSamples>>
                /\ last.window[2] <= ddr_maxlen => Len(last.data) = LastBurstSamples
           ELSE /\ last.window = <<junk_len, LastBurstSamples>>
                /\ last.window[2] <= ddr_maxlen =>
                       Len(last.data) = Max(0, LastBurstSamples - junk_len)
        /\ Len(last.data) =
               Max(0, Min(last.window[2], ddr_maxlen) - last.window[1])

\* get_mem(16) with bursts of 4 samples: the window [51, 64), 13 samples
C28_Witness ==
    /\ last.op = "get_mem"
    /\ last.start_arg = <<>>
    /\ last.nt = 16
    /\ burst_len = 4
    /\ last.window = <<51, 64>>
    /\ Len(last.data) = 13

---------------------------------------------------------------------------
(* AxisReadoutV2, under SpecRO. *)

\* C24: set_freq_int of the single-channel readout never fails, whatever word
\* freq_reg held before: it writes freq_reg, then we_reg = 1, then we_reg = 0,
\* so that after every call freq_reg holds the word of the call and we_reg = 0.
C24_NoCollision ==
    /\ we_reg = 0
    /\ last.op = "ro_set_freq_int" =>
           /\ last.status = "ok"
           /\ last.writes = << <<"freq_reg", last.f_int>>,
                               <<"we_reg", 1>>, <<"we_reg", 0>> >>
           /\ ro_freq_reg = last.f_int

\* word 2 was written over word 1
C24_Witness ==
    /\ last.op = "ro_set_freq_int"
    /\ last.prior = 1
    /\ last.f_int = 2
    /\ last.status = "ok"
    /\ ro_freq_reg = 2
    /\ we_reg = 0


---------------------------------------------------------------------------
(* Blocking transfers, under SpecLive. *)

\* C25: a transfer call that is started reaches the wait for the DMA; it leaves
\* the wait only by the completion of the DMA, going on to its next statement
\* with no result recorded (there is no timeout and no cancellation), and it
\* ends only from a statement that follows the wait, so that it never ends when
\* the DMA never completes; once the DMA has completed the call ends, by
\* returning or by raising the transfer error.
C25_BlockingTransfer ==
    /\ \A b \in Bufs :
           (sh_pc[b] \in {"sel", "dr_addr", "dr_len", "start", "dma"})
               ~> (sh_pc[b] = "wait")
    /\ \A b \in Bufs : (sh_pc[b] \in {"stop", "check"}) ~> (sh_pc[b] = "idle")
    /\ [][\A b \in Bufs :
             (sh_pc[b] = "wait" /\ sh_pc'[b] # "wait") =>
                 /\ b \in sh_dma[sh_call[b].kind].waiters
                 /\ b \notin sh_dma'[sh_call[b].kind].waiters
                 /\ sh_pc'[b] \in {"stop", "check"}
                 /\ sh_ret'[b] = [status |-> "running"]]_vars
    /\ [][\A b \in Bufs :
             (sh_pc[b] # "idle" /\ sh_pc'[b] = "idle") =>
                 sh_pc[b] \in {"stop", "check"}]_vars

\* block 0 is inside transfer_avg, blocked in the wait for the DMA
C25_Witness ==
    /\ sh_pc[0] = "wait"
    /\ sh_call[0].kind = "avg"
    /\ 0 \in sh_dma["avg"].waiters
    /\ sh_ret[0] = [status |-> "running"]
    /\ sh_dr[0]["avg"].start = 1

---------------------------------------------------------------------------
(* The frequency codec, under SpecCodec. *)

\* C26: for every frequency f, the word of f lies in 0 .. 2^w - 1; the
\* frequency of that word differs from f, modulo the DDS range bw, by at most
\* bw / 2^w; and the word of that frequency is the same word.  (The three
\* frequencies are compared as integers, scaled by f_dds.den * 2^w.)
C26_CodecRoundTrip ==
    last.op = "freq2int" =>
        LET scale == last.f_dds.den * (2 ^ WordBits)
            range == last.f_dds.num * (2 ^ WordBits)
            quantum == last.f_dds.num
            diff == (last.back.num - last.f * scale) % range
        IN  /\ last.word \in 0 .. ((2 ^ WordBits) - 1)
            /\ last.back.den = scale
            /\ (diff <= quantum \/ range - diff <= quantum)
            /\ last.again = last.word

\* -20 MHz on the 8-channel bank (DDS range 25 MHz): 51 after the wrap-around,
\* which converts back to 51 * 25 / 256 MHz and to 51 again
C26_Witness ==
    /\ last.op = "freq2int"
    /\ last.f = -20
    /\ last.f_dds = V2_f_dds
    /\ last.word = (2 ^ WordBits) \div 5
    /\ last.again = last.word

---------------------------------------------------------------------------
(* The wide filter banks, under SpecWide. *)

\* C27: in the wide filter banks set_freq_int(f_int, pfb_ch, out_ch) with
\* pfb_ch in 0..N-1 and out_ch in 0..NOUT-1 succeeds whatever the registers
\* held, writes the id, freq and phase registers of out_ch and leaves the
\* registers of every other output unchanged.
C27_WideIndependent ==
    [][(/\ last'.op = "set_freq_int_wide"
        /\ last'.pfb_ch \in 0 .. (N_PFB - 1)
        /\ last'.out_ch \in 0 .. (NOUT - 1))
       => /\ last'.status = "ok"
          /\ id_reg'[last'.out_ch] =
                 256 * (last'.pfb_ch % L_PFB) + (last'.pfb_ch \div L_PFB)
          /\ freq_reg'[last'.out_ch] = last'.f_int
          /\ phase_reg'[last'.out_ch] = 0
          /\ \A o \in WideOutputs \ {last'.out_ch} :
                 /\ id_reg'[o] = id_reg[o]
                 /\ freq_reg'[o] = freq_reg[o]
                 /\ phase_reg'[o] = phase_reg[o]]_vars

\* the first and the last output of a 4-output bank are bound to the same PFB
\* channel, 8, with the words 1 and 2
C27_Witness ==
    /\ block = "V3"
    /\ last.op = "set_freq_int_wide"
    /\ last.status = "ok"
    /\ id_reg[0] = 1
    /\ id_reg[NOUT_V3 - 1] = 1
    /\ freq_reg[0] = 1
    /\ freq_reg[NOUT_V3 - 1] = 2

---------------------------------------------------------------------------
(* The output mode of the 8-channel filter bank, under SpecOut. *)

Modes == {"product", "input", "dds"}

\* C29: the output mode is write-once: a set_out while no mode is set sets sel
\* to the mode and outsel_reg to its code; once a mode is set, a set_out with
\* the same mode succeeds, a set_out with another mode fails and leaves sel and
\* outsel_reg as they are, and no call but initialize changes sel; initialize
\* clears sel, so that any mode can be set again.
C29_ModeWriteOnce ==
    [][IsCall =>
          /\ (last'.op = "set_out" /\ last'.sel \in Modes) =>
                 IF sel = "None" \/ sel = last'.sel
                 THEN /\ last'.status = "ok"
                      /\ sel' = last'.sel
                      /\ outsel_reg' = (CASE last'.sel = "product" -> 0
                                          [] last'.sel = "input" -> 1
                                          [] last'.sel = "dds" -> 2)
                 ELSE /\ last'.status = "mode_conflict"
                      /\ sel' = sel
                      /\ outsel_reg' = outsel_reg
          /\ (last'.op # "initialize" /\ sel # "None") => sel' = sel
          /\ last'.op = "initialize" => sel' = "None"]_vars

\* with the mode set to dds, a set_out("input") was refused
C29_Witness ==
    /\ last.op = "set_out"
    /\ last.status = "mode_conflict"
    /\ last.prior = "dds"
    /\ last.sel = "input"
    /\ sel = "dds"
    /\ outsel_reg = 2

---------------------------------------------------------------------------
(* Collisions of the 8-channel filter bank, under SpecPFB. *)

\* C30: a collision error names two different outputs; when the output of the
\* call is the output that committed the channel's word and no other output is
\* routed to the channel, a set_freq_int with another word succeeds.
C30_CollisionNeedsTwoOutputs ==
    IsSetFreqInt(last) =>
        /\ last.status = "collision" => last.conflict[1] # last.conflict[2]
        /\ ( /\ last.prior # <<>>
             /\ last.prior[2] = last.out_ch
             /\ \A o \in V2Outputs \ {last.out_ch} : ch_sel_reg[o] # last.in_ch )
           => last.status = "ok"


\* C31: a channel is reserved only while an output is routed to it: whenever
\* set_freq_int raises a collision on a channel (against an output that
\* exists), the channel-select register of at least one output holds that
\* channel.
C31_ReservedWhileRouted ==
    ( /\ IsSetFreqInt(last)
      /\ last.status = "collision"
      /\ last.conflict[2] \in V2Outputs )
    => \E o \in V2Outputs : ch_sel_reg[o] = last.in_ch


---------------------------------------------------------------------------
(* The residual of set_freq, under SpecSetFreq. *)

\* cfg['f_dds'] of the block
BlockFdds == IF block = "V2" THEN V2_f_dds ELSE Wide_f_dds

\* C32: in every set_freq the residual ro_freq - f_steps * (f_dds/2) that is
\* handed to the frequency codec has absolute value at most f_dds/4: the folded
\* frequency lies within a quarter of the DDS range of the center of the
\* channel selected for it.
C32_ResidualInBand ==
    AfterSetFreq =>
        /\ locals.f_dds.den > 0
        /\ 4 * Abs(locals.f_dds.num) * BlockFdds.den
               <= locals.f_dds.den * BlockFdds.num
        /\ locals.f_dds.num + locals.f_steps * BlockFdds.num
               = locals.ro_freq * locals.f_dds.den

\* set_freq(20) on the 8-channel bank (f_dds = 25): f_steps = round(1.6) = 2
\* and the residual is 20 - 25 = -5, below the center of the channel
C32_Witness ==
    /\ AfterSetFreq
    /\ block = "V2"
    /\ locals.ro_freq = 2 * FreqStep
    /\ locals.f_steps = 2
    /\ locals.f_dds.num * 1 = (0 - 5) * locals.f_dds.den


---------------------------------------------------------------------------
(* Lengths and range errors of AxisAvgBuffer, under SpecAvg. *)

\* the capacity of the buffer of the last transfer
LastMaxLen == IF last.op = "transfer_avg" THEN avg_maxlen ELSE buf_maxlen

\* C33: for every length that transfer_avg or transfer_buf accepts, the padded
\* length programmed into the data reader is at most maxlen and the byte count
\* asked of the DMA is at most the size of the preallocated buffer, maxlen
\* samples.
C33_PaddedLengthFits ==
    (IsTransfer(last) /\ last.status # "too_long") =>
        /\ last.length < LastMaxLen
        /\ LastDrLen <= LastMaxLen
        /\ LastDma.nbytes <= LastMaxLen * LastItemSize

\* transfer_avg of the longest length accepted, maxlen - 1, which is odd: the
\* padded length is maxlen and the DMA fills the whole buffer
C33_Witness ==
    /\ last.op = "transfer_avg"
    /\ last.status = "ok"
    /\ last.length = avg_maxlen - 1
    /\ avg_dr_len_reg = avg_maxlen
    /\ dma_avg.nbytes = avg_maxlen * AvgItemSize

\* C34: a config(address, length) that fails with a range error modifies
\* neither the averaging window nor the raw window.
C34_ConfigAllOrNothing ==
    [][(IsCall /\ last'.op = "config" /\ last'.status = "too_long") =>
          UNCHANGED <<avg_addr_reg, avg_len_reg, buf_addr_reg, buf_len_reg>>]_vars

\* C35: transfer_avg / transfer_buf called with length >= the capacity of its
\* buffer fails with a range error and changes nothing: the switches, the
\* data-reader address, length and start registers and the DMA requests are as
\* before the call.
C35_RangeErrorFirst ==
    [][(/\ IsCall
        /\ IsTransfer(last')
        /\ last'.length >= (IF last'.op = "transfer_avg"
                            THEN avg_maxlen ELSE buf_maxlen))
       => /\ last'.status = "too_long"
          /\ UNCHANGED <<switch_avg, switch_buf, dma_avg, dma_buf>>
          /\ UNCHANGED <<avg_dr_addr_reg, avg_dr_len_reg, avg_dr_start_reg>>
          /\ UNCHANGED <<buf_dr_addr_reg, buf_dr_len_reg, buf_dr_start_reg>>
          /\ UNCHANGED <<avgRegs, bufRegs>>]_vars

\* transfer_avg(1, maxlen) was refused on a block that has made no transfer: the
\* switch still selects port 0 and the data reader holds its reset values
C35_Witness ==
    /\ last.op = "transfer_avg"
    /\ last.status = "too_long"
    /\ last.address = 1
    /\ last.length = avg_maxlen
    /\ switch_avg = 0
    /\ avg_dr_addr_reg = 0
    /\ avg_dr_len_reg = 0
    /\ dma_avg = [nbytes |-> 0, transferred |-> 0]

===========================================================================
